---------------------------- MODULE Spec2Model ----------------------------
(***************************************************************************)
(* The customer-support chat route (POST /api/chat) of the quickstarts     *)
(* repository: retrieval (retrieveContext), prompt assembly, the           *)
(* completion call, sanitizeAndParseJSON, responseSchema and the response  *)
(* headers, modelled at the level of UTF-16 code units so that             *)
(* JSON.stringify, JSON.parse and the regular expressions of the route are *)
(* computed, not assumed.                                                  *)
(*                                                                         *)
(* Strings are sequences of code units; a code unit is a TLA+ string of    *)
(* one character, or a "U+xxxx" token for a code unit outside ASCII.       *)
(* JavaScript values are tagged records:                                   *)
(*   [t |-> "undefined"], [t |-> "null"], [t |-> "bool", b |-> ...],       *)
(*   [t |-> "num", n |-> integer part, f |-> hundredths],                  *)
(*   [t |-> "str", s |-> code units], [t |-> "arr", a |-> values],         *)
(*   [t |-> "obj", m |-> sequence of [k |-> key, v |-> value]].            *)
(***************************************************************************)
EXTENDS Integers, Sequences, FiniteSets, TLC

(***************************************************************************)
(* Code units                                                              *)
(***************************************************************************)
DQ == "\""
BS == "\\"
NL == "\n"
SP == " "
\* The two halves of U+1F680 (the rocket of the debug message) and U+00E9.
HiSur == "U+D83D"
LoSur == "U+DE80"
EAcute == "U+00E9"
NonAscii == {HiSur, LoSur, EAcute}
\* JSON whitespace and the regular expression class \s, over this alphabet.
WS == {SP, NL}
Digits == <<"0", "1", "2", "3", "4", "5", "6", "7", "8", "9">>
DigitSet == {Digits[i] : i \in 1..10}

DigitValue(c) == CHOOSE d \in 0..9 : Digits[d + 1] = c

\* The concatenation of a sequence of sequences, by halves.
RECURSIVE Concat(_)
Concat(ss) ==
    IF ss = <<>> THEN <<>>
    ELSE IF Len(ss) = 1 THEN ss[1]
    ELSE LET h == Len(ss) \div 2
         IN Concat(SubSeq(ss, 1, h)) \o Concat(SubSeq(ss, h + 1, Len(ss)))

\* Array.prototype.join for strings.
RECURSIVE Join(_, _)
Join(ss, sep) ==
    IF ss = <<>> THEN <<>>
    ELSE IF Len(ss) = 1 THEN ss[1]
    ELSE ss[1] \o sep \o Join(Tail(ss), sep)

(***************************************************************************)
(* JavaScript values                                                       *)
(***************************************************************************)
JUndef == [t |-> "undefined"]
JNull == [t |-> "null"]
JBool(b) == [t |-> "bool", b |-> b]
JFrac(n, f) == [t |-> "num", n |-> n, f |-> f]
JNum(n) == JFrac(n, 0)
JStr(s) == [t |-> "str", s |-> s]
JArr(a) == [t |-> "arr", a |-> a]
JObj(m) == [t |-> "obj", m |-> m]
KV(k, v) == [k |-> k, v |-> v]

IsNullish(v) == v.t \in {"undefined", "null"}

\* ToBoolean.
Truthy(v) ==
    CASE v.t \in {"undefined", "null"} -> FALSE
      [] v.t = "bool" -> v.b
      [] v.t = "num" -> v.n # 0 \/ v.f # 0
      [] v.t = "str" -> v.s # <<>>
      [] OTHER -> TRUE

HasKey(o, k) == \E i \in DOMAIN o.m : o.m[i].k = k

\* o[k] for an object: undefined when the key is absent.
Get(o, k) ==
    IF o.t = "obj" /\ HasKey(o, k)
    THEN o.m[CHOOSE i \in DOMAIN o.m : o.m[i].k = k].v
    ELSE JUndef

\* o[k] = v as JSON.parse does it: a repeated key keeps its first place and
\* takes the last value.
Put(m, k, v) ==
    IF \E i \in DOMAIN m : m[i].k = k
    THEN [i \in DOMAIN m |-> IF m[i].k = k THEN KV(k, v) ELSE m[i]]
    ELSE Append(m, KV(k, v))

(***************************************************************************)
(* JSON.stringify                                                          *)
(***************************************************************************)
RECURSIVE NatChars(_)
NatChars(n) ==
    IF n < 10 THEN <<Digits[n + 1]>>
    ELSE NatChars(n \div 10) \o <<Digits[(n % 10) + 1]>>

\* Number::toString for a non-negative number with at most two decimals.
NumChars(v) ==
    NatChars(v.n) \o
    (IF v.f = 0 THEN <<>>
     ELSE IF v.f % 10 = 0 THEN <<".", Digits[(v.f \div 10) + 1]>>
     ELSE <<".", Digits[(v.f \div 10) + 1], Digits[(v.f % 10) + 1]>>)

\* An escaping that writes a line break as it is.
QuoteAtRawLineBreak(s, i) ==
    LET c == s[i] IN
    CASE c = DQ -> <<BS, DQ>>
      [] c = BS -> <<BS, BS>>
      [] c = HiSur -> IF i < Len(s) /\ s[i + 1] = LoSur THEN <<c>>
                      ELSE <<BS, "u", "d", "8", "3", "d">>
      [] c = LoSur -> IF i > 1 /\ s[i - 1] = HiSur THEN <<c>>
                      ELSE <<BS, "u", "d", "e", "8", "0">>
      [] OTHER -> <<c>>

\* QuoteJSONString: the escapes of the code units of this alphabet; a
\* surrogate that is not part of a pair is written as a \u escape.
QuoteAt(s, i) ==
    LET c == s[i] IN
    CASE c = DQ -> <<BS, DQ>>
      [] c = BS -> <<BS, BS>>
      [] c = NL -> <<BS, "n">>
      [] c = HiSur -> IF i < Len(s) /\ s[i + 1] = LoSur THEN <<c>>
                      ELSE <<BS, "u", "d", "8", "3", "d">>
      [] c = LoSur -> IF i > 1 /\ s[i - 1] = HiSur THEN <<c>>
                      ELSE <<BS, "u", "d", "e", "8", "0">>
      [] OTHER -> <<c>>

QuoteChars(s) == Concat([i \in DOMAIN s |-> QuoteAt(s, i)])

RECURSIVE Stringify(_)
Stringify(v) ==
    CASE v.t = "null" -> <<"n", "u", "l", "l">>
      [] v.t = "bool" -> IF v.b THEN <<"t", "r", "u", "e">>
                         ELSE <<"f", "a", "l", "s", "e">>
      [] v.t = "num" -> NumChars(v)
      [] v.t = "str" -> <<DQ>> \o QuoteChars(v.s) \o <<DQ>>
      [] v.t = "arr" ->
            <<"[">> \o
            Join([i \in DOMAIN v.a |->
                    IF v.a[i].t = "undefined" THEN <<"n", "u", "l", "l">>
                    ELSE Stringify(v.a[i])], <<",">>)
            \o <<"]">>
      [] v.t = "obj" ->
            LET kept == SelectSeq(v.m, LAMBDA e : e.v.t # "undefined")
            IN <<"{">> \o
               Join([i \in DOMAIN kept |->
                       <<DQ>> \o QuoteChars(kept[i].k) \o <<DQ, ":">> \o
                       Stringify(kept[i].v)], <<",">>)
               \o <<"}">>

(***************************************************************************)
(* JSON.parse                                                              *)
(***************************************************************************)
Fail == [ok |-> FALSE]
Ok(v, i) == [ok |-> TRUE, v |-> v, i |-> i]

RECURSIVE SkipWS(_, _)
SkipWS(s, i) == IF i <= Len(s) /\ s[i] \in WS THEN SkipWS(s, i + 1) ELSE i

Matches(s, i, lit) ==
    /\ i + Len(lit) - 1 <= Len(s)
    /\ SubSeq(s, i, i + Len(lit) - 1) = lit

\* The \u escapes JSON.stringify writes over this alphabet.
UnicodeEscape(s, i) ==
    IF Matches(s, i, <<"d", "8", "3", "d">>) THEN Ok(HiSur, i + 4)
    ELSE IF Matches(s, i, <<"d", "e", "8", "0">>) THEN Ok(LoSur, i + 4)
    ELSE IF Matches(s, i, <<"0", "0", "e", "9">>) THEN Ok(EAcute, i + 4)
    ELSE Fail

\* The first index from i on that holds a quote, a backslash or a line
\* break; 0 when there is none.
NextSpecial(s, i) ==
    LET special == {j \in i..Len(s) : s[j] \in {DQ, BS, NL}}
    IN IF special = {} THEN 0 ELSE CHOOSE j \in special : \A j2 \in special : j <= j2

\* The escape sequence whose backslash is at index j.
EscapeAt(s, j) ==
    IF j + 1 > Len(s) THEN Fail
    ELSE CASE s[j + 1] \in {DQ, BS, "/"} -> Ok(s[j + 1], j + 2)
           [] s[j + 1] = "n" -> Ok(NL, j + 2)
           [] s[j + 1] = "u" -> UnicodeEscape(s, j + 2)
           [] OTHER -> Fail

\* The characters of a string literal from index i (after the opening quote)
\* to its closing quote; a raw line break inside the literal is an error.
RECURSIVE ParseChars(_, _, _)
AfterEscape(s, plain, e) ==
    IF e.ok THEN ParseChars(s, e.i, Append(plain, e.v)) ELSE Fail

ParseCharsTo(s, i, acc, j) ==
    IF j = 0 THEN Fail
    ELSE CASE s[j] = DQ -> Ok(acc \o SubSeq(s, i, j - 1), j + 1)
           [] s[j] = NL -> Fail
           [] OTHER -> AfterEscape(s, acc \o SubSeq(s, i, j - 1), EscapeAt(s, j))

ParseChars(s, i, acc) == ParseCharsTo(s, i, acc, NextSpecial(s, i))

RECURSIVE ParseNat(_, _, _)
ParseNat(s, i, acc) ==
    IF i <= Len(s) /\ s[i] \in DigitSet
    THEN ParseNat(s, i + 1, 10 * acc + DigitValue(s[i]))
    ELSE Ok(acc, i)

\* The decimals fr after the integer part int: one or two digits.
WithFraction(int, fr) ==
    IF fr.i - int.i = 2 THEN Ok(JFrac(int.v, 10 * fr.v), fr.i)
    ELSE IF fr.i - int.i = 3 THEN Ok(JFrac(int.v, fr.v), fr.i)
    ELSE Fail

AfterInteger(s, i, int) ==
    IF s[i] = "0" /\ int.i > i + 1 THEN Fail
    ELSE IF int.i <= Len(s) /\ s[int.i] = "."
    THEN WithFraction(int, ParseNat(s, int.i + 1, 0))
    ELSE Ok(JNum(int.v), int.i)

\* A non-negative number with at most two decimals (no sign, no exponent:
\* neither is in the texts of this model).
ParseNumber(s, i) == AfterInteger(s, i, ParseNat(s, i, 0))

StringValue(r) == IF r.ok THEN Ok(JStr(r.v), r.i) ELSE Fail

RECURSIVE ParseValue(_, _), ParseElements(_, _, _), ParseMembers(_, _, _)
\* After an element: "]" ends the array, "," goes on.
ElementEnd(s, acc, j) ==
    IF j > Len(s) THEN Fail
    ELSE IF s[j] = "]" THEN Ok(JArr(acc), j + 1)
    ELSE IF s[j] = "," THEN ParseElements(s, j + 1, acc)
    ELSE Fail

AfterElement(s, acc, r) ==
    IF r.ok THEN ElementEnd(s, Append(acc, r.v), SkipWS(s, r.i)) ELSE Fail

\* value ("," value)* "]"
ParseElements(s, i, acc) == AfterElement(s, acc, ParseValue(s, i))

\* After a member: "}" ends the object, "," goes on.
MemberEnd(s, acc, j) ==
    IF j > Len(s) THEN Fail
    ELSE IF s[j] = "}" THEN Ok(JObj(acc), j + 1)
    ELSE IF s[j] = "," THEN ParseMembers(s, j + 1, acc)
    ELSE Fail

AfterMember(s, acc, key, r) ==
    IF r.ok THEN MemberEnd(s, Put(acc, key, r.v), SkipWS(s, r.i)) ELSE Fail

ColonAt(s, acc, key, c) ==
    IF c > Len(s) \/ s[c] # ":" THEN Fail
    ELSE AfterMember(s, acc, key, ParseValue(s, c + 1))

AfterKey(s, acc, k) ==
    IF k.ok THEN ColonAt(s, acc, k.v, SkipWS(s, k.i)) ELSE Fail

KeyAt(s, i, acc) ==
    IF i > Len(s) \/ s[i] # DQ THEN Fail
    ELSE AfterKey(s, acc, ParseChars(s, i + 1, <<>>))

\* string ":" value ("," string ":" value)* "}"
ParseMembers(s, i0, acc) == KeyAt(s, SkipWS(s, i0), acc)

\* After "[" and after "{".
ArrayAt(s, j) ==
    IF j <= Len(s) /\ s[j] = "]" THEN Ok(JArr(<<>>), j + 1)
    ELSE ParseElements(s, j, <<>>)

ObjectAt(s, j) ==
    IF j <= Len(s) /\ s[j] = "}" THEN Ok(JObj(<<>>), j + 1)
    ELSE ParseMembers(s, j, <<>>)

ValueAt(s, i) ==
    IF i > Len(s) THEN Fail
    ELSE CASE s[i] = "{" -> ObjectAt(s, SkipWS(s, i + 1))
           [] s[i] = "[" -> ArrayAt(s, SkipWS(s, i + 1))
           [] s[i] = DQ -> StringValue(ParseChars(s, i + 1, <<>>))
           [] s[i] \in DigitSet -> ParseNumber(s, i)
           [] Matches(s, i, <<"t", "r", "u", "e">>) -> Ok(JBool(TRUE), i + 4)
           [] Matches(s, i, <<"f", "a", "l", "s", "e">>) -> Ok(JBool(FALSE), i + 5)
           [] Matches(s, i, <<"n", "u", "l", "l">>) -> Ok(JNull, i + 4)
           [] OTHER -> Fail

ParseValue(s, i0) == ValueAt(s, SkipWS(s, i0))

\* The whole text is one value.
WholeText(s, r) ==
    IF r.ok /\ SkipWS(s, r.i) > Len(s) THEN [ok |-> TRUE, v |-> r.v] ELSE Fail

\* JSON.parse: [ok |-> TRUE, v |-> value], or [ok |-> FALSE] for a SyntaxError.
JSONParse(s) == WholeText(s, ParseValue(s, 1))

(***************************************************************************)
(* Property names and literals of the source                               *)
(***************************************************************************)
K_response == <<"r", "e", "s", "p", "o", "n", "s", "e">>
K_thinking == <<"t", "h", "i", "n", "k", "i", "n", "g">>
K_user_mood == <<"u", "s", "e", "r", "_", "m", "o", "o", "d">>
K_suggested_questions == <<"s", "u", "g", "g", "e", "s", "t", "e", "d", "_", "q", "u", "e", "s", "t", "i", "o", "n", "s">>
K_debug == <<"d", "e", "b", "u", "g">>
K_context_used == <<"c", "o", "n", "t", "e", "x", "t", "_", "u", "s", "e", "d">>
K_matched_categories == <<"m", "a", "t", "c", "h", "e", "d", "_", "c", "a", "t", "e", "g", "o", "r", "i", "e", "s">>
K_redirect_to_agent == <<"r", "e", "d", "i", "r", "e", "c", "t", "_", "t", "o", "_", "a", "g", "e", "n", "t">>
K_should_redirect == <<"s", "h", "o", "u", "l", "d", "_", "r", "e", "d", "i", "r", "e", "c", "t">>
K_reason == <<"r", "e", "a", "s", "o", "n">>
K_id == <<"i", "d">>
K_msg == <<"m", "s", "g">>
K_data == <<"d", "a", "t", "a">>
K_timestamp == <<"t", "i", "m", "e", "s", "t", "a", "m", "p">>
K_messages == <<"m", "e", "s", "s", "a", "g", "e", "s">>
K_model == <<"m", "o", "d", "e", "l">>
K_knowledgeBaseId == <<"k", "n", "o", "w", "l", "e", "d", "g", "e", "B", "a", "s", "e", "I", "d">>
K_role == <<"r", "o", "l", "e">>
K_content == <<"c", "o", "n", "t", "e", "n", "t">>
K_messagesReceived == <<"m", "e", "s", "s", "a", "g", "e", "s", "R", "e", "c", "e", "i", "v", "e", "d">>
K_latestMessageLength == <<"l", "a", "t", "e", "s", "t", "M", "e", "s", "s", "a", "g", "e", "L", "e", "n", "g", "t", "h">>
K_anthropicKeySlice == <<"a", "n", "t", "h", "r", "o", "p", "i", "c", "K", "e", "y", "S", "l", "i", "c", "e">>
K_fileName == <<"f", "i", "l", "e", "N", "a", "m", "e">>
K_snippet == <<"s", "n", "i", "p", "p", "e", "t">>
K_score == <<"s", "c", "o", "r", "e">>
K_retrievalResults == <<"r", "e", "t", "r", "i", "e", "v", "a", "l", "R", "e", "s", "u", "l", "t", "s">>
K_text == <<"t", "e", "x", "t">>
K_location == <<"l", "o", "c", "a", "t", "i", "o", "n">>
K_s3Location == <<"s", "3", "L", "o", "c", "a", "t", "i", "o", "n">>
K_uri == <<"u", "r", "i">>
K_metadata == <<"m", "e", "t", "a", "d", "a", "t", "a">>
K_chunkId == <<"x", "-", "a", "m", "z", "-", "b", "e", "d", "r", "o", "c", "k", "-", "k", "b", "-", "c", "h", "u", "n", "k", "-", "i", "d">>
NoInformationFound == <<"N", "o", " ", "i", "n", "f", "o", "r", "m", "a", "t", "i", "o", "n", " ", "f", "o", "u", "n", "d", " ", "f", "o", "r", " ", "t", "h", "i", "s", " ", "q", "u", "e", "r", "y", ".">>
SourcePrefix == <<"S", "o", "u", "r", "c", "e", "-">>
DotTxt == <<".", "t", "x", "t">>
ChunkPrefix == <<"c", "h", "u", "n", "k", "-">>
ObjectObject == <<"[", "o", "b", "j", "e", "c", "t", " ", "O", "b", "j", "e", "c", "t", "]">>
UndefinedChars == <<"u", "n", "d", "e", "f", "i", "n", "e", "d">>

(***************************************************************************)
(* String methods used by retrieveContext                                  *)
(***************************************************************************)
\* ToString of the values joined or concatenated in this model.
ToStringJS(v) ==
    CASE v.t = "str" -> v.s
      [] v.t = "num" -> NumChars(v)
      [] v.t = "bool" -> IF v.b THEN <<"t", "r", "u", "e">> ELSE <<"f", "a", "l", "s", "e">>
      [] v.t = "undefined" -> UndefinedChars
      [] v.t = "null" -> <<"n", "u", "l", "l">>
      [] OTHER -> ObjectObject

\* uri.split("/").pop(): what follows the last "/".
LastSegment(s) ==
    LET slashes == {i \in DOMAIN s : s[i] = "/"}
    IN IF slashes = {} THEN s
       ELSE SubSeq(s, (CHOOSE i \in slashes : \A j \in slashes : j <= i) + 1, Len(s))

\* s.replace(/_/g, " ")
UnderscoresToSpaces(s) == [i \in DOMAIN s |-> IF s[i] = "_" THEN SP ELSE s[i]]

\* s.replace(".txt", ""): the first occurrence only.
RemoveFirstDotTxt(s) ==
    LET at == {i \in DOMAIN s : Matches(s, i, DotTxt)}
    IN IF at = {} THEN s
       ELSE LET i == CHOOSE i \in at : \A j \in at : i <= j
            IN SubSeq(s, 1, i - 1) \o SubSeq(s, i + Len(DotTxt), Len(s))

(***************************************************************************)
(* retrieveContext (app/lib/utils.ts)                                      *)
(***************************************************************************)
\* What bedrockClient.send settles with: a rejection, or a response value.
SvcThrow == [t |-> "throw"]

\* The value retrieveContext resolves with; sent records whether
\* bedrockClient.send was called.
RagResult(context, isRagWorking, ragSources, sent) ==
    [context |-> context, isRagWorking |-> isRagWorking,
     ragSources |-> ragSources, sent |-> sent]

\* The object of the early return and of the catch block.
RagUnavailable(sent) == RagResult(<<>>, FALSE, <<>>, sent)

\* The filter callback: res.content && res.content.text
IsUsable(res) == Truthy(Get(res, K_content)) /\ Truthy(Get(Get(res, K_content), K_text))

\* a || b
OrElse(a, b) == IF Truthy(a) THEN a ELSE b

\* result?.location?.s3Location?.uri || ""
UriOf(result) ==
    OrElse(Get(Get(Get(result, K_location), K_s3Location), K_uri), JStr(<<>>))

\* The map callback, for an item whose uri is a string; index counts from 0.
ToRagSource(result, index) ==
    LET popped == JStr(LastSegment(UriOf(result).s))
        fileName == OrElse(popped, JStr(SourcePrefix \o NatChars(index) \o DotTxt))
    IN JObj(<<
         KV(K_id, OrElse(Get(Get(result, K_metadata), K_chunkId),
                         JStr(ChunkPrefix \o NatChars(index)))),
         KV(K_fileName, JStr(RemoveFirstDotTxt(UnderscoresToSpaces(fileName.s)))),
         KV(K_snippet, OrElse(Get(Get(result, K_content), K_text), JStr(<<>>))),
         KV(K_score, OrElse(Get(result, K_score), JNum(0)))
       >>)
\* A cap of two sources, .slice(0, 2), in place of line 77.
SourceCapTwo(sources) == SubSeq(sources, 1, IF Len(sources) < 2 THEN Len(sources) ELSE 2)

\* How many sources .slice(0, 1) keeps: one.
SourceCap(sources) == SubSeq(sources, 1, IF Len(sources) < 1 THEN Len(sources) ELSE 1)

\* The body of the try block after the send has resolved with response;
\* a TypeError thrown on the way is caught by the catch block.
ParseResults(response) ==
    LET rr == IF IsNullish(response) THEN JUndef ELSE Get(response, K_retrievalResults)
        rawResults == OrElse(rr, JArr(<<>>))
    IN IF rawResults.t # "arr" THEN RagUnavailable(TRUE)
       ELSE IF \E i \in DOMAIN rawResults.a : IsNullish(rawResults.a[i])
       THEN RagUnavailable(TRUE)
       ELSE LET usable == SelectSeq(rawResults.a, IsUsable)
            IN IF \E i \in DOMAIN usable : UriOf(usable[i]).t # "str"
               THEN RagUnavailable(TRUE)
               ELSE RagResult(
                      Join([i \in DOMAIN usable |->
                              ToStringJS(Get(Get(usable[i], K_content), K_text))],
                           <<NL, NL>>),
                      TRUE,
                      SourceCap([i \in DOMAIN usable |-> ToRagSource(usable[i], i - 1)]),
                      TRUE)
\* retrieveContext without the early return of lines 41-48.
retrieveContextAlwaysSends(query, knowledgeBaseId, svc) ==
    IF svc = SvcThrow THEN RagUnavailable(TRUE) ELSE ParseResults(svc)

retrieveContext(query, knowledgeBaseId, svc) ==
    IF ~Truthy(knowledgeBaseId) THEN RagUnavailable(FALSE)
    ELSE IF svc = SvcThrow THEN RagUnavailable(TRUE)
    ELSE ParseResults(svc)

(***************************************************************************)
(* Helpers of the chat route (app/api/chat/route.ts)                       *)
(***************************************************************************)
Positive == <<"p", "o", "s", "i", "t", "i", "v", "e">>
Neutral == <<"n", "e", "u", "t", "r", "a", "l">>
Negative == <<"n", "e", "g", "a", "t", "i", "v", "e">>
Curious == <<"c", "u", "r", "i", "o", "u", "s">>
Frustrated == <<"f", "r", "u", "s", "t", "r", "a", "t", "e", "d">>
Confused == <<"c", "o", "n", "f", "u", "s", "e", "d">>
\* The members of z.enum([...]) of user_mood.
UserMoods == {Positive, Neutral, Negative, Curious, Frustrated, Confused}

ApiRouteCalled == <<" ", "A", "P", "I", " ", "r", "o", "u", "t", "e", " ", "c", "a", "l", "l", "e", "d">>
Mask == <<"*", "*", "*", "*">>
ApologyText == <<"S", "o", "r", "r", "y", ",", " ", "t", "h", "e", "r", "e", " ", "w", "a", "s", " ", "a", "n", " ", "i", "s", "s", "u", "e", " ", "p", "r", "o", "c", "e", "s", "s", "i", "n", "g", " ", "y", "o", "u", "r", " ", "r", "e", "q", "u", "e", "s", "t", ".", " ", "P", "l", "e", "a", "s", "e", " ", "t", "r", "y", " ", "a", "g", "a", "i", "n", " ", "l", "a", "t", "e", "r", ".">>
ErrorNote == <<"E", "r", "r", "o", "r", " ", "o", "c", "c", "u", "r", "r", "e", "d", " ", "d", "u", "r", "i", "n", "g", " ", "m", "e", "s", "s", "a", "g", "e", " ", "g", "e", "n", "e", "r", "a", "t", "i", "o", "n", ".">>
Assistant == <<"a", "s", "s", "i", "s", "t", "a", "n", "t">>
User == <<"u", "s", "e", "r">>
K_type == <<"t", "y", "p", "e">>
TextType == <<"t", "e", "x", "t">>
ToolUseType == <<"t", "o", "o", "l", "_", "u", "s", "e">>
\* What new Date().toISOString() returns: 24 ASCII characters.
IsoTimestamp == <<"2", "0", "2", "4", "-", "0", "1", "-", "0", "1", "T", "0", "0", ":", "0", "0", ":", "0", "0", ".", "0", "0", "0", "Z">>
MAX_DEBUG_LENGTH == 1000
\* A sanitizeHeaderValue that removes nothing.
sanitizeHeaderValueKeepsAll(value) == value

\* value.replace(/[^\x00-\x7F]/g, "")
sanitizeHeaderValue(value) == SelectSeq(value, LAMBDA c : c \notin NonAscii)

\* s.slice(0, n)
SliceTo(s, n) == SubSeq(s, 1, IF Len(s) < n THEN Len(s) ELSE n)

\* debugMessage(msg, data): the timestamp keeps its printable ASCII, data
\* takes a round trip through JSON.
debugMessage(msg, data) ==
    LET timestamp == SelectSeq(IsoTimestamp, LAMBDA c : c \notin NonAscii \cup {NL})
        safeData == JSONParse(Stringify(data)).v
    IN Stringify(JObj(<<KV(K_msg, JStr(msg)), KV(K_data, safeData),
                        KV(K_timestamp, JStr(timestamp))>>))

\* The whole key in front of the mask.
anthropicKeyWhole(key) == ToStringJS(key) \o Mask

\* process.env.ANTHROPIC_API_KEY?.slice(0, 4) + "****"
anthropicKeySlice(key) == ToStringJS(IF key.t = "undefined" THEN key ELSE JStr(SliceTo(key.s, 4))) \o Mask

\* x.length of a string or an array; undefined for the other values that
\* have properties.
LengthOf(v) ==
    CASE v.t = "str" -> JNum(Len(v.s))
      [] v.t = "arr" -> JNum(Len(v.a))
      [] OTHER -> JUndef

\* debugData of POST, lines 76-83.
DebugData(messages, latestMessage, key) ==
    SliceTo(
      sanitizeHeaderValue(
        debugMessage(<<HiSur, LoSur>> \o ApiRouteCalled,
                     JObj(<<KV(K_messagesReceived, LengthOf(messages)),
                            KV(K_latestMessageLength, LengthOf(latestMessage)),
                            KV(K_anthropicKeySlice, JStr(anthropicKeySlice(key)))>>))),
      MAX_DEBUG_LENGTH)

\* The text the template literal of systemPrompt embeds at line 138; the
\* rest of the prompt is fixed text.
EmbeddedContext(isRagWorking, retrievedContext) ==
    IF isRagWorking THEN retrievedContext ELSE NoInformationFound

(***************************************************************************)
(* responseSchema (zod, unknown keys stripped, keys in the shape's order)  *)
(***************************************************************************)
ZString(v) == v.t = "str"
ZStringArray(v) == v.t = "arr" /\ \A i \in DOMAIN v.a : v.a[i].t = "str"
ZUserMood(v) == v.t = "str" /\ v.s \in UserMoods
ZDebug(v) == v.t = "obj" /\ Get(v, K_context_used).t = "bool"
ZRedirect(v) ==
    /\ v.t = "obj"
    /\ Get(v, K_should_redirect).t = "bool"
    /\ Get(v, K_reason).t \in {"str", "undefined"}

\* The members that are set: an optional key that is absent is not copied.
Present(m) == SelectSeq(m, LAMBDA e : e.v.t # "undefined")
\* The schema with user_mood declared optional.
responseSchemaOptionalMood(v) ==
    /\ v.t = "obj"
    /\ ZString(Get(v, K_response))
    /\ ZString(Get(v, K_thinking))
    /\ (Get(v, K_user_mood).t = "undefined" \/ ZUserMood(Get(v, K_user_mood)))
    /\ ZStringArray(Get(v, K_suggested_questions))
    /\ ZDebug(Get(v, K_debug))
    /\ (Get(v, K_matched_categories).t = "undefined"
          \/ ZStringArray(Get(v, K_matched_categories)))
    /\ (Get(v, K_redirect_to_agent).t = "undefined"
          \/ ZRedirect(Get(v, K_redirect_to_agent)))

responseSchemaAccepts(v) ==
    /\ v.t = "obj"
    /\ ZString(Get(v, K_response))
    /\ ZString(Get(v, K_thinking))
    /\ ZUserMood(Get(v, K_user_mood))
    /\ ZStringArray(Get(v, K_suggested_questions))
    /\ ZDebug(Get(v, K_debug))
    /\ (Get(v, K_matched_categories).t = "undefined"
          \/ ZStringArray(Get(v, K_matched_categories)))
    /\ (Get(v, K_redirect_to_agent).t = "undefined"
          \/ ZRedirect(Get(v, K_redirect_to_agent)))

\* A schema that keeps the keys it does not know (.passthrough()).
responseSchemaParseKeepsUnknown(v) ==
    IF ~responseSchemaAccepts(v) THEN Fail ELSE [ok |-> TRUE, v |-> v]

\* responseSchema.parse(v): [ok |-> TRUE, v |-> the parsed object], or
\* [ok |-> FALSE] for a ZodError.
responseSchemaParse(v) ==
    IF ~responseSchemaAccepts(v) THEN Fail
    ELSE LET redirect == Get(v, K_redirect_to_agent)
         IN [ok |-> TRUE,
             v |-> JObj(Present(<<
                 KV(K_response, Get(v, K_response)),
                 KV(K_thinking, Get(v, K_thinking)),
                 KV(K_user_mood, Get(v, K_user_mood)),
                 KV(K_suggested_questions, Get(v, K_suggested_questions)),
                 KV(K_debug, JObj(<<KV(K_context_used,
                                       Get(Get(v, K_debug), K_context_used))>>)),
                 KV(K_matched_categories, Get(v, K_matched_categories)),
                 KV(K_redirect_to_agent,
                    IF redirect.t = "undefined" THEN JUndef
                    ELSE JObj(Present(<<
                           KV(K_should_redirect, Get(redirect, K_should_redirect)),
                           KV(K_reason, Get(redirect, K_reason))>>)))
               >>))]

(***************************************************************************)
(* sanitizeAndParseJSON                                                    *)
(***************************************************************************)
\* (?<=:\s*") at position p: the code unit before p is a quote, preceded by
\* white space and a colon.
LookbehindAt(s, p) ==
    /\ p >= 3
    /\ p - 1 <= Len(s)
    /\ s[p - 1] = DQ
    /\ \E j \in 1..(p - 2) : s[j] = ":" /\ \A k \in (j + 1)..(p - 2) : s[k] \in WS

\* (?=") for the lazy (.|\n)*? from p: the first quote at or after p.
QuotesFrom(s, p) == {q \in p..Len(s) : s[q] = DQ}

\* match.replace(/\n/g, "\\n")
EscapeNewlines(m) ==
    Concat([i \in DOMAIN m |-> IF m[i] = NL THEN <<BS, "n">> ELSE <<m[i]>>])

\* String.prototype.replace with the global regular expression of line 200,
\* from lastIndex: the leftmost match, replaced, then on from its end (one
\* further after an empty match).
RECURSIVE ReplaceInValues(_, _)
ReplaceInValues(s, lastIndex) ==
    LET starts == {p \in lastIndex..Len(s) : LookbehindAt(s, p) /\ QuotesFrom(s, p) # {}}
    IN IF starts = {} THEN SubSeq(s, lastIndex, Len(s))
       ELSE LET p == CHOOSE p \in starts : \A p2 \in starts : p <= p2
                q == CHOOSE q \in QuotesFrom(s, p) : \A q2 \in QuotesFrom(s, p) : q <= q2
            IN SubSeq(s, lastIndex, p - 1) \o EscapeNewlines(SubSeq(s, p, q - 1)) \o
               (IF q = p THEN <<s[q]>> \o ReplaceInValues(s, q + 1)
                ELSE ReplaceInValues(s, q))

\* [ok |-> TRUE, v |-> value], or [ok |-> FALSE] for the Error it throws.
sanitizeAndParseJSON(jsonString) == JSONParse(ReplaceInValues(jsonString, 1))
\* A catch block that tells a failed completion call from the other causes.
ErrorResponseWithCause(error) ==
    JObj(<<KV(K_response, JStr(ApologyText)),
           KV(K_thinking, JStr(IF error = "completion"
                               THEN <<"A", "P", "I", SP, "e", "r", "r", "o", "r">>
                               ELSE ErrorNote)),
           KV(K_user_mood, JStr(Neutral)),
           KV(K_debug, JObj(<<KV(K_context_used, JBool(FALSE))>>))>>)

\* errorResponse of the catch block; error is what was caught.
ErrorResponse(error) ==
    JObj(<<KV(K_response, JStr(ApologyText)),
           KV(K_thinking, JStr(ErrorNote)),
           KV(K_user_mood, JStr(Neutral)),
           KV(K_debug, JObj(<<KV(K_context_used, JBool(FALSE))>>))>>)

(***************************************************************************)
(* The environment: request bodies, the API key, what the retrieval        *)
(* service and the completion API answer                                   *)
(***************************************************************************)
MaxMessages == 2
MaxResults == 2

Msg(role, content) == JObj(<<KV(K_role, JStr(role)), KV(K_content, content)>>)

\* The i-th message of a conversation: user and assistant turns alternate,
\* each with the id the chat client gives it.
MessageAt(i) ==
    JObj(<<KV(K_id, JStr(<<"m">> \o NatChars(i))),
           KV(K_role, JStr(IF i % 2 = 1 THEN User ELSE Assistant)),
           KV(K_content, JStr(<<"q", EAcute>> \o NatChars(i)))>>)

\* The message lists of the requests: the first n turns of a conversation.
Histories == {[i \in 1..n |-> MessageAt(i)] : n \in 1..MaxMessages}

KnowledgeBaseIds == {JUndef, JStr(<<>>), JStr(<<"k", "b", "1">>)}

RequestValue(msgs, kb) ==
    JObj(<<KV(K_messages, JArr(msgs)), KV(K_model, JStr(<<"m">>)),
           KV(K_knowledgeBaseId, kb)>>)

\* A body that is cut off: not JSON.
TruncatedBody == <<"{", DQ, "m", "e", "s", "s", "a", "g", "e", "s", DQ, ":", "[">>

RequestBodies ==
    {Stringify(RequestValue(h, kb)) : h \in Histories, kb \in KnowledgeBaseIds}
    \cup {TruncatedBody,
          Stringify(JNull),
          Stringify(JObj(<<KV(K_model, JStr(<<"m">>))>>)),
          Stringify(RequestValue(<<>>, JStr(<<"k", "b", "1">>))),
          Stringify(RequestValue(<<JObj(<<KV(K_role, JStr(User))>>)>>, JUndef))}

\* process.env.ANTHROPIC_API_KEY: unset, a usual key, a key whose fourth
\* code unit is half of a surrogate pair.
ApiKeys == {JUndef,
            JStr(<<"s", "k", "-", "a", "n", "t", "-", "1">>),
            JStr(<<DQ, EAcute, "k", HiSur, LoSur, "z">>)}

\* Retrieval results.
ResultItem(text, uri, chunkId, score) ==
    JObj(Present(<<
      KV(K_content, JObj(<<KV(K_text, text)>>)),
      KV(K_location, IF uri.t = "undefined" THEN JUndef
                     ELSE JObj(<<KV(K_s3Location, JObj(<<KV(K_uri, uri)>>))>>)),
      KV(K_metadata, IF chunkId.t = "undefined" THEN JUndef
                     ELSE JObj(<<KV(K_chunkId, chunkId)>>)),
      KV(K_score, score)>>))

SampleUri == <<"s", "3", ":", "/", "/", "k", "b", "/", "m", "y", "_", "f", "a", "q", ".", "t", "x", "t">>

\* A full result, a result with nothing but a text (which holds a character
\* outside ASCII and a line break), and a result without a usable text.
FullItem == ResultItem(JStr(<<"a", "1">>), JStr(SampleUri), JStr(<<"c", "7">>), JFrac(0, 95))
BareItem == ResultItem(JStr(<<"b", EAcute, NL, "2">>), JUndef, JUndef, JNum(1))
EmptyItem == ResultItem(JStr(<<>>), JStr(SampleUri), JUndef, JFrac(0, 50))
WellFormedItems == {FullItem, BareItem, EmptyItem}

RetrieveResponse(items) == JObj(<<KV(K_retrievalResults, JArr(items))>>)

RECURSIVE SeqsUpTo(_, _)
SeqsUpTo(S, n) ==
    IF n = 0 THEN {<<>>}
    ELSE LET shorter == SeqsUpTo(S, n - 1)
         IN shorter \cup {Append(s, e) : s \in shorter, e \in S}

WellFormedResponses == {RetrieveResponse(items) : items \in SeqsUpTo(WellFormedItems, MaxResults)}

\* Responses that do not have the shape of a RetrieveCommandOutput.
MalformedResponses ==
    {JNull,
     JObj(<<>>),
     JObj(<<KV(K_retrievalResults, JNull)>>),
     JObj(<<KV(K_retrievalResults, JStr(<<"x">>))>>),
     RetrieveResponse(<<FullItem, JNull>>),
     RetrieveResponse(<<ResultItem(JStr(<<"a", "1">>), JNum(7), JUndef, JUndef)>>),
     RetrieveResponse(<<ResultItem(JNum(42), JUndef, JUndef, JUndef)>>)}

ServiceOutcomes == {SvcThrow} \cup WellFormedResponses \cup MalformedResponses

(***************************************************************************)
(* What the completion API answers                                         *)
(***************************************************************************)
Angry == <<"a", "n", "g", "r", "y">>
Billing == <<"b", "i", "l", "l", "i", "n", "g">>

\* The reply the prompt asks for; JUndef stands for a key that is left out.
BaseReply ==
    [thinking |-> JStr(<<"t">>),
     response |-> JStr(<<"r">>),
     user_mood |-> JStr(Curious),
     suggested_questions |-> JArr(<<JStr(<<"q">>)>>),
     debug |-> JObj(<<KV(K_context_used, JBool(TRUE))>>),
     matched_categories |-> JUndef,
     redirect_to_agent |-> JUndef,
     id |-> JUndef]

\* Replies that differ from BaseReply in one key: the key is missing, has a
\* value of another type, or holds line breaks, quotes or a colon.
ReplyChoices ==
    {BaseReply}
    \cup {[BaseReply EXCEPT !.response = o] :
            o \in {JUndef, JNum(1), JStr(<<"a", NL, "b">>),
                   JStr(<<"a", DQ, NL, "b">>), JStr(<<"n", ":">>)}}
    \cup {[BaseReply EXCEPT !.thinking = o] : o \in {JUndef, JNull}}
    \cup {[BaseReply EXCEPT !.user_mood = o] : o \in {JUndef, JStr(Angry), JNum(1)}}
    \cup {[BaseReply EXCEPT !.suggested_questions = o] :
            o \in {JUndef, JArr(<<>>), JArr(<<JNum(1)>>), JStr(<<"q">>),
                   JArr(<<JStr(<<"q", NL, "r">>), JStr(<<"s">>)>>)}}
    \cup {[BaseReply EXCEPT !.debug = o] :
            o \in {JUndef, JObj(<<>>), JBool(FALSE),
                   JObj(<<KV(K_context_used, JBool(FALSE))>>),
                   JObj(<<KV(K_context_used, JStr(<<"n", "o">>))>>)}}
    \cup {[BaseReply EXCEPT !.matched_categories = o] :
            o \in {JArr(<<JStr(Billing)>>), JStr(Billing)}}
    \cup {[BaseReply EXCEPT !.redirect_to_agent = o] :
            o \in {JObj(<<KV(K_should_redirect, JBool(TRUE)),
                          KV(K_reason, JStr(<<"x", NL, "y">>))>>),
                   JObj(<<KV(K_should_redirect, JBool(FALSE)), KV(K_id, JNum(1))>>),
                   JObj(<<KV(K_reason, JStr(<<"x">>))>>)}}
    \cup {[BaseReply EXCEPT !.id = o] : o \in {JStr(<<"f", "a", "k", "e">>)}}

\* The members of a reply in the order of the prompt's examples.
ReplyMembers(c) ==
    Present(<<KV(K_thinking, c.thinking), KV(K_response, c.response),
              KV(K_user_mood, c.user_mood),
              KV(K_suggested_questions, c.suggested_questions),
              KV(K_debug, c.debug), KV(K_matched_categories, c.matched_categories),
              KV(K_redirect_to_agent, c.redirect_to_agent), KV(K_id, c.id)>>)

\* A string literal as a model writes it when it does not escape line
\* breaks: quotes and backslashes escaped, line breaks raw.
RawQuote(s) ==
    <<DQ>> \o
    Concat([i \in DOMAIN s |->
              CASE s[i] = DQ -> <<BS, DQ>>
                [] s[i] = BS -> <<BS, BS>>
                [] OTHER -> <<s[i]>>])
    \o <<DQ>>

\* JSON text of a value with its line breaks raw, written compactly.
RECURSIVE RawText(_)
RawText(v) ==
    CASE v.t = "str" -> RawQuote(v.s)
      [] v.t = "arr" -> <<"[">> \o Join([i \in DOMAIN v.a |-> RawText(v.a[i])], <<",">>)
                        \o <<"]">>
      [] v.t = "obj" ->
            <<"{">> \o
            Join([i \in DOMAIN v.m |-> RawQuote(v.m[i].k) \o <<":">> \o RawText(v.m[i].v)],
                 <<",">>)
            \o <<"}">>
      [] OTHER -> Stringify(v)

\* The same text laid out on lines, one member a line, a space after the
\* colon.
PrettyText(members) ==
    <<"{", NL>> \o
    Join([i \in DOMAIN members |->
            <<SP>> \o RawQuote(members[i].k) \o <<":", SP>> \o RawText(members[i].v)],
         <<",", NL>>)
    \o <<NL, "}">>

\* The texts a reply is written as.
ReplyTexts == {RawText(JObj(ReplyMembers(c))) : c \in ReplyChoices}
              \cup {PrettyText(ReplyMembers(c)) : c \in ReplyChoices}

TextBlock(text) == JObj(<<KV(K_type, JStr(TextType)), KV(K_text, JStr(text))>>)
ToolUseBlock == JObj(<<KV(K_type, JStr(ToolUseType)), KV(K_id, JStr(<<"t", "1">>))>>)

\* What anthropic.messages.create settles with: a rejection, or the content
\* blocks of the message.  The assistant turn is primed with "{", so a
\* reply comes without its first brace; it may come in two text blocks, and
\* the model may answer with text that is no JSON at all.
ApiThrow == [t |-> "throw"]
ApiMessage(content) == [t |-> "message", content |-> content]
BaseText == RawText(JObj(ReplyMembers(BaseReply)))
CompletionOutcomes ==
    {ApiThrow}
    \cup {ApiMessage(<<TextBlock(Tail(text))>>) : text \in ReplyTexts}
    \cup {ApiMessage(<<TextBlock(SubSeq(BaseText, 2, 14)), ToolUseBlock,
                       TextBlock(SubSeq(BaseText, 15, Len(BaseText)))>>),
          ApiMessage(<<TextBlock(<<"S", "o", "r", "r", "y">>)>>),
          ApiMessage(<<TextBlock(Tail(BaseText) \o <<SP, "o", "k">>)>>),
          ApiMessage(<<>>)}

\* crypto.randomUUID()
SampleUuid == <<"3", "b", "2", "4", "1", "1", "0", "1", "-", "e", "2", "b", "b", "-", "4", "2", "5", "5", "-", "8", "c", "a", "f", "-", "4", "1", "3", "6", "c", "5", "6", "6", "a", "9", "6", "2">>
Uuids == {SampleUuid}

\* The value of svc when bedrockClient.send is not called.
NotCalled == [t |-> "none"]

VARIABLES
    pc,              \* where POST is: "start", "rag", "generate", "done", "uncaught"
    reqBody,         \* the text of the request body
    apiKey,          \* process.env.ANTHROPIC_API_KEY
    messages,        \* messages of the request body
    knowledgeBaseId, \* knowledgeBaseId of the request body
    latestMessage,
    debugData,
    svc,             \* what the retrieval service settled with
    retrievedContext,
    isRagWorking,
    ragSources,
    bedrockCalls,    \* the calls of bedrockClient.send
    systemPrompt,    \* the text embedded at line 138
    anthropicCalls,  \* the calls of anthropic.messages.create
    anthropicMessages, \* the messages of the last call
    completion,      \* what the completion API settled with
    textContent,
    parsedResponse,  \* what sanitizeAndParseJSON returned or threw
    caught,          \* what the catch block of line 287 caught
    response         \* the Response POST returned

\* The state of the customer-support chat client (ChatArea, MessageContent).
VARIABLES
    chatMessages,    \* the messages state of ChatArea
    isLoading,
    inFlight,        \* the calls of handleSubmit suspended at the fetch
    effects,         \* setMessages, fetch and dispatchEvent calls in the order made
    timedOut,        \* ids of the messages whose 30 second timer has fired
    uuidsDrawn       \* how many times crypto.randomUUID was called

\* POST /api/upload.
VARIABLES
    uploadRequest,   \* what req.json() resolved with
    uploadResponse   \* the Response returned

uploadVars == <<uploadRequest, uploadResponse>>

\* LeftSidebar.
VARIABLES
    thinkingContents, \* the state of LeftSidebar
    sidebarClock,     \* how many updateSidebar events were delivered
    deliveredIds,     \* the truthy ids of the events delivered
    lastDetail        \* the detail of the last event delivered

sidebarVars == <<thinkingContents, sidebarClock, deliveredIds, lastDetail>>

\* The finance page (AIChat), its LeftNavBar and utils/chatStorage.ts.
VARIABLES
    chatStore,        \* the sessions under "financial-analyst-chats"
    lastCall,         \* the last handler or store function run, with its result
    currentChatId,    \* state of AIChat
    financeMessages,  \* state of AIChat: messages
    financeIsLoading, \* state of AIChat: isLoading
    financeInFlight,  \* the session in which the pending request was submitted
    selectedModel,    \* state of AIChat
    financeUuids      \* how many crypto.randomUUID() values were drawn

financeVars == <<chatStore, lastCall, currentChatId, financeMessages, financeIsLoading,
                 financeInFlight, selectedModel, financeUuids>>

\* The container launcher script of part_004, lines 60-227, from the trap
\* of line 207 on.
VARIABLES
    scriptPc,          \* the command of lines 219-227 the script is at
    trapFrames,        \* the trap handlers running, the innermost last
    pendingTraps,      \* signals received whose handler has not started
    SIGNAL_RECEIVED,   \* shell variable of line 182
    CLEANUP_DONE,      \* shell variable of line 183
    containerState,    \* what became of the container
    stopCalls,         \* how many times docker stop ran
    printedUnexpected, \* whether line 225 printed its message
    exitStatus,        \* the status the script exits with
    signalsSent        \* how many SIGINT or SIGTERM the script was sent

launcherVars == <<scriptPc, trapFrames, pendingTraps, SIGNAL_RECEIVED, CLEANUP_DONE,
                  containerState, stopCalls, printedUnexpected, exitStatus, signalsSent>>

routeVars == <<pc, reqBody, apiKey, messages, knowledgeBaseId, latestMessage, debugData,
               svc, retrievedContext, isRagWorking, ragSources, bedrockCalls,
               systemPrompt, anthropicCalls, anthropicMessages, completion, textContent,
               parsedResponse, caught, response>>

chatVars == <<chatMessages, isLoading, inFlight, effects, timedOut, uuidsDrawn>>

vars == <<routeVars, chatVars, uploadVars, sidebarVars, financeVars,
        launcherVars>>

besideRoute == <<chatVars, uploadVars, sidebarVars, financeVars, launcherVars>>

besideChat == <<routeVars, uploadVars, sidebarVars, financeVars, launcherVars>>

besideUpload == <<routeVars, chatVars, sidebarVars, financeVars, launcherVars>>

besideSidebar == <<routeVars, chatVars, uploadVars, financeVars, launcherVars>>

besideFinance == <<routeVars, chatVars, uploadVars, sidebarVars, launcherVars>>

besideLauncher == <<routeVars, chatVars, uploadVars, sidebarVars, financeVars>>

\* ChatArea as mounted: lines 322-324 of part_002.
ChatMounted ==
    /\ chatMessages = <<>>
    /\ isLoading = FALSE
    /\ inFlight = {}
    /\ effects = <<>>
    /\ timedOut = {}
    /\ uuidsDrawn = 0

NoHeader == [present |-> FALSE, value |-> <<>>]
Header(value) == [present |-> TRUE, value |-> value]
NoResponse == [status |-> 0, body |-> <<>>, xRagSources |-> NoHeader, xDebugData |-> NoHeader]

\* POST before its first statement.
RouteFresh ==
    /\ pc = "start"
    /\ messages = JUndef
    /\ knowledgeBaseId = JUndef
    /\ latestMessage = JUndef
    /\ debugData = <<>>
    /\ svc = NotCalled
    /\ retrievedContext = <<>>
    /\ isRagWorking = FALSE
    /\ ragSources = <<>>
    /\ bedrockCalls = 0
    /\ systemPrompt = <<>>
    /\ anthropicCalls = 0
    /\ anthropicMessages = <<>>
    /\ completion = NotCalled
    /\ textContent = <<>>
    /\ parsedResponse = NotCalled
    /\ caught = "none"
    /\ response = NoResponse

\* No upload request to answer.
NoUpload == [status |-> 0, body |-> <<>>]
UploadIdle ==
    /\ uploadRequest = JUndef
    /\ uploadResponse = NoUpload

\* LeftSidebar as mounted: lines 48-50 of LeftSidebar.tsx.
SidebarMounted ==
    /\ thinkingContents = <<>>
    /\ sidebarClock = 0
    /\ deliveredIds = {}
    /\ lastDetail = JUndef

\* The route with no request to answer.
NoCall == [op |-> "none", id |-> 0, ret |-> FALSE]
NoChat == 0
Sonnet == "claude-3-5-sonnet-20240620"
Haiku == "claude-3-haiku-20240307"

\* Nothing is stored and AIChat is not mounted: lines 163-170 of page.tsx.
FinanceUnmounted ==
    /\ chatStore = <<>>
    /\ lastCall = NoCall
    /\ currentChatId = NoChat
    /\ financeMessages = <<>>
    /\ financeIsLoading = FALSE
    /\ financeInFlight = NoChat
    /\ selectedModel = Sonnet
    /\ financeUuids = 0

\* The launcher script is not running.
NoExit == 0 - 1
LauncherOff ==
    /\ scriptPc = "off"
    /\ trapFrames = <<>>
    /\ pendingTraps = 0
    /\ SIGNAL_RECEIVED = 0
    /\ CLEANUP_DONE = 0
    /\ containerState = "none"
    /\ stopCalls = 0
    /\ printedUnexpected = FALSE
    /\ exitStatus = NoExit
    /\ signalsSent = 0

RouteIdle ==
    /\ reqBody = <<>>
    /\ apiKey = <<>>
    /\ RouteFresh

FreshBesideRoute ==
    /\ ChatMounted
    /\ UploadIdle
    /\ SidebarMounted
    /\ FinanceUnmounted
    /\ LauncherOff

FreshBesideChat ==
    /\ RouteIdle
    /\ UploadIdle
    /\ SidebarMounted
    /\ FinanceUnmounted
    /\ LauncherOff

FreshBesideUpload ==
    /\ RouteIdle
    /\ ChatMounted
    /\ SidebarMounted
    /\ FinanceUnmounted
    /\ LauncherOff

FreshBesideSidebar ==
    /\ RouteIdle
    /\ ChatMounted
    /\ UploadIdle
    /\ FinanceUnmounted
    /\ LauncherOff

FreshBesideFinance ==
    /\ RouteIdle
    /\ ChatMounted
    /\ UploadIdle
    /\ SidebarMounted
    /\ LauncherOff

FreshBesideLauncher ==
    /\ RouteIdle
    /\ ChatMounted
    /\ UploadIdle
    /\ SidebarMounted
    /\ FinanceUnmounted

Init ==
    /\ reqBody \in RequestBodies
    /\ apiKey \in ApiKeys
    /\ RouteFresh
    /\ FreshBesideRoute

\* messages[messages.length - 1]
LastOf(v) ==
    CASE v.t = "arr" /\ v.a # <<>> -> v.a[Len(v.a)]
      [] v.t = "str" /\ v.s # <<>> -> JStr(<<v.s[Len(v.s)]>>)
      [] OTHER -> JUndef

\* Whether lines 69-83 throw: they are outside every try block.
ReceiveThrows(parsed) ==
    \/ ~parsed.ok
    \/ IsNullish(parsed.v)
    \/ IsNullish(Get(parsed.v, K_messages))
    \/ IsNullish(LastOf(Get(parsed.v, K_messages)))
    \/ IsNullish(Get(LastOf(Get(parsed.v, K_messages)), K_content))

\* Lines 70-83 for a body that does not make them throw.
Accept(msgs, kb, latest) ==
    /\ pc' = "rag"
    /\ messages' = msgs
    /\ knowledgeBaseId' = kb
    /\ latestMessage' = latest
    /\ debugData' = DebugData(msgs, latest, apiKey)

\* Lines 69-83 once req.json() has settled with parsed.
Destructure(parsed) ==
    IF ReceiveThrows(parsed)
    THEN /\ pc' = "uncaught"
         /\ UNCHANGED <<messages, knowledgeBaseId, latestMessage, debugData>>
    ELSE Accept(Get(parsed.v, K_messages),
                Get(parsed.v, K_knowledgeBaseId),
                Get(LastOf(Get(parsed.v, K_messages)), K_content))

\* Lines 64-83: req.json(), latestMessage, debugData.
Receive ==
    /\ pc = "start"
    /\ Destructure(JSONParse(reqBody))
    /\ UNCHANGED <<reqBody, apiKey, svc, retrievedContext, isRagWorking, ragSources,
                   bedrockCalls, systemPrompt, anthropicCalls, anthropicMessages,
                   completion, textContent, parsedResponse, caught, response>>
    /\ UNCHANGED besideRoute

\* Lines 94-97 and 135-196: the result of retrieveContext is copied and the
\* system prompt built.
TakeResult(outcome, result) ==
    /\ svc' = IF result.sent THEN outcome ELSE NotCalled
    /\ retrievedContext' = result.context
    /\ isRagWorking' = result.isRagWorking
    /\ ragSources' = result.ragSources
    /\ bedrockCalls' = bedrockCalls + (IF result.sent THEN 1 ELSE 0)
    /\ systemPrompt' = EmbeddedContext(result.isRagWorking, result.context)

\* Lines 85-196: the retrieval and the system prompt.
Retrieve ==
    /\ pc = "rag"
    /\ \E outcome \in ServiceOutcomes :
         TakeResult(outcome, retrieveContext(latestMessage, knowledgeBaseId, outcome))
    /\ pc' = "generate"
    /\ UNCHANGED <<reqBody, apiKey, messages, knowledgeBaseId, latestMessage, debugData,
                   anthropicCalls, anthropicMessages, completion, textContent,
                   parsedResponse, caught, response>>
    /\ UNCHANGED besideRoute

\* The messages passed on as they came, then the primed assistant turn.
AnthropicMessagesAsReceived(msgs) == Append(msgs.a, Msg(Assistant, JStr(<<"{">>)))

\* Lines 216-224: each message reduced to role and content, then the
\* primed assistant turn.
AnthropicMessages(msgs) ==
    Append([i \in DOMAIN msgs.a |->
              JObj(<<KV(K_role, Get(msgs.a[i], K_role)),
                     KV(K_content, Get(msgs.a[i], K_content))>>)],
           Msg(Assistant, JStr(<<"{">>)))

\* Lines 238-241: "{" and the text blocks joined by a space.
TextContent(content) ==
    LET texts == SelectSeq(content, LAMBDA block : Get(block, K_type) = JStr(TextType))
    IN <<"{">> \o Join([i \in DOMAIN texts |-> Get(texts[i], K_text).s], <<SP>>)

\* Lines 254-257: { id: crypto.randomUUID(), ...validatedResponse }
ResponseWithId(uuid, validatedResponse) ==
    JObj(Put(<<KV(K_id, JStr(uuid))>> \o
             SelectSeq(validatedResponse.m, LAMBDA e : e.k # K_id),
             K_id,
             IF HasKey(validatedResponse, K_id) THEN Get(validatedResponse, K_id)
             ELSE JStr(uuid)))
\* A 200 response that sets x-rag-sources whatever the source list holds.
SuccessResponseAlwaysSources(body, sources, debug) ==
    [status |-> 200,
     body |-> Stringify(body),
     xRagSources |-> Header(sanitizeHeaderValue(Stringify(JArr(sources)))),
     xDebugData |-> Header(sanitizeHeaderValue(debug))]

\* Lines 266-286: the 200 response and its headers.
SuccessResponse(body, sources, debug) ==
    [status |-> 200,
     body |-> Stringify(body),
     xRagSources |-> IF Len(sources) > 0
                     THEN Header(sanitizeHeaderValue(Stringify(JArr(sources))))
                     ELSE NoHeader,
     xDebugData |-> Header(sanitizeHeaderValue(debug))]

\* Lines 287-301: the catch block.
FailureResponse(error) ==
    [status |-> 500, body |-> Stringify(ErrorResponse(error)),
     xRagSources |-> NoHeader, xDebugData |-> NoHeader]

\* Line 252 for the outcome parsed of line 246.
Validate(text, parsed) ==
    [textContent |-> text,
     parsed |-> parsed,
     validated |-> IF parsed.ok THEN responseSchemaParse(parsed.v) ELSE Fail]

\* Lines 244-250.
ParseText(text) == Validate(text, sanitizeAndParseJSON(text))

\* What lines 238-252 compute from the content blocks of a message: the
\* text, what sanitizeAndParseJSON returns and, for a parsed text, what
\* responseSchema.parse returns.
Generation(content) == ParseText(TextContent(content))

\* Generation, tabulated over the messages of the environment.
GenerationOf == [o \in CompletionOutcomes \ {ApiThrow} |-> Generation(o.content)]

\* Lines 238-301 for a message of the completion API: the 200 response, or
\* the catch block after a failed parse or validation.
Respond(uuid, g) ==
    /\ textContent' = g.textContent
    /\ parsedResponse' = g.parsed
    /\ caught' = IF ~g.parsed.ok THEN "json"
                 ELSE IF ~g.validated.ok THEN "schema"
                 ELSE "none"
    /\ response' =
         IF ~g.parsed.ok THEN FailureResponse("json")
         ELSE IF ~g.validated.ok THEN FailureResponse("schema")
         ELSE SuccessResponse(ResponseWithId(uuid, g.validated.v), ragSources, debugData)

\* A handler that goes back to the completion call after a failure.
CompleteAndRetry ==
    /\ pc = "generate"
    /\ \E outcome \in CompletionOutcomes, uuid \in Uuids :
         /\ completion' = outcome
         /\ IF outcome = ApiThrow
            THEN /\ caught' = "completion"
                 /\ response' = FailureResponse("completion")
                 /\ UNCHANGED <<textContent, parsedResponse>>
            ELSE Respond(uuid, GenerationOf[outcome])
    /\ anthropicMessages' = AnthropicMessages(messages)
    /\ anthropicCalls' = anthropicCalls + 1
    /\ pc' = IF caught' = "none" THEN "done" ELSE "generate"
    /\ UNCHANGED <<reqBody, apiKey, messages, knowledgeBaseId, latestMessage, debugData,
                   svc, retrievedContext, isRagWorking, ragSources, bedrockCalls,
                   systemPrompt>>
    /\ UNCHANGED besideRoute

\* Lines 212-301: the completion call, the parse, the validation, the
\* response.
Complete ==
    /\ pc = "generate"
    /\ \E outcome \in CompletionOutcomes, uuid \in Uuids :
         /\ completion' = outcome
         /\ IF outcome = ApiThrow
            THEN /\ caught' = "completion"
                 /\ response' = FailureResponse("completion")
                 /\ UNCHANGED <<textContent, parsedResponse>>
            ELSE Respond(uuid, GenerationOf[outcome])
    /\ anthropicMessages' = AnthropicMessages(messages)
    /\ anthropicCalls' = anthropicCalls + 1
    /\ pc' = "done"
    /\ UNCHANGED <<reqBody, apiKey, messages, knowledgeBaseId, latestMessage, debugData,
                   svc, retrievedContext, isRagWorking, ragSources, bedrockCalls,
                   systemPrompt>>
    /\ UNCHANGED besideRoute

Next == Receive \/ Retrieve \/ Complete
Spec == Init /\ [][Next]_vars

(***************************************************************************)
(* The customer-support chat client: ChatArea.handleSubmit and             *)
(* MessageContent of part_002.  A message of the transcript is a record    *)
(* of id, role and content; ids count the calls of crypto.randomUUID.      *)
(***************************************************************************)

MaxSubmissions == 2

\* What the user types, or the suggested question clicked.
Inputs == {<<"h", "i">>, <<"o", "k", "?">>}

AIIsProcessing == <<"A", "I", " ", "i", "s", " ", "p", "r", "o", "c", "e", "s", "s", "i", "n", "g", ".", ".", ".">>
ThreeDots == <<".", ".", ".">>
ThinkingText == <<"T", "h", "i", "n", "k", "i", "n", "g", ".", ".", ".">>
SomethingWentWrong == <<"S", "o", "m", "e", "t", "h", "i", "n", "g", " ", "w", "e", "n", "t", " ", "w", "r", "o", "n", "g", ".", " ", "P", "l", "e", "a", "s", "e", " ", "t", "r", "y", " ", "a", "g", "a", "i", "n", ".">>
DefaultModel == "claude-3-haiku-20240307"
DefaultKnowledgeBase == "your-knowledge-base-id"

ChatMessage(id, role, content) == [id |-> id, role |-> role, content |-> content]

\* Lines 442-453: the content of the placeholder.
PlaceholderContent ==
    Stringify(JObj(<<
      KV(K_response, JStr(<<>>)),
      KV(K_thinking, JStr(AIIsProcessing)),
      KV(K_user_mood, JStr(Neutral)),
      KV(K_debug, JObj(<<KV(K_context_used, JBool(FALSE))>>))>>))

\* Lines 435-440; no file is attached.
UserMessage(id, input) == ChatMessage(id, "user", input)

\* Lines 442-453.
PlaceholderMessage(id) == ChatMessage(id, "assistant", PlaceholderContent)

\* Lines 471-475: the value JSON.stringify is given for the request body.
RequestBody(msgs, userMessage) ==
    [messages |-> Append(msgs, userMessage),
     model |-> DefaultModel,
     knowledgeBaseId |-> DefaultKnowledgeBase]

\* One entry of effects: what was called, by which submission, with what.
Effect(op, sub, arg) == [op |-> op, sub |-> sub, arg |-> arg]

\* The fetch started before the transcript update is issued.
SubmitEffectsFetchFirst(sub, userMessage, placeholderMessage, body) ==
    <<Effect("fetch", sub, body),
      Effect("append", sub, <<userMessage, placeholderMessage>>)>>

\* Lines 455-476 in the order of the statements: setMessages, then fetch.
SubmitEffects(sub, userMessage, placeholderMessage, body) ==
    <<Effect("append", sub, <<userMessage, placeholderMessage>>),
      Effect("fetch", sub, body)>>

\* How many submissions have started their fetch.
Submissions == Cardinality({i \in DOMAIN effects : effects[i].op = "fetch"})

\* Lines 422-476 for the messages of a submission.  The controls that call
\* handleSubmit are disabled while isLoading (lines 112, 715, 755).
SubmitWith(sub, userMessage, placeholderMessage) ==
    /\ isLoading' = TRUE
    /\ chatMessages' = chatMessages \o <<userMessage, placeholderMessage>>
    /\ effects' = effects \o
         SubmitEffects(sub, userMessage, placeholderMessage,
                       RequestBody(chatMessages, userMessage))
    /\ inFlight' = inFlight \cup
         {[sub |-> sub, userMessage |-> userMessage,
           placeholder |-> placeholderMessage.id,
           slot |-> Len(chatMessages) + 2]}
    /\ uuidsDrawn' = uuidsDrawn + 2

Submit ==
    /\ ~isLoading
    /\ Submissions < MaxSubmissions
    /\ \E input \in Inputs :
         SubmitWith(Submissions + 1, UserMessage(uuidsDrawn + 1, input),
                    PlaceholderMessage(uuidsDrawn + 2))
    /\ UNCHANGED timedOut
    /\ UNCHANGED besideChat

\* A reply as the route validates it, before the id is added.
ChatReplyWith(answer, thinking, contextUsed, redirect) ==
    JObj(Present(<<
      KV(K_response, JStr(answer)),
      KV(K_thinking, JStr(thinking)),
      KV(K_user_mood, JStr(Curious)),
      KV(K_suggested_questions, JArr(<<>>)),
      KV(K_debug, JObj(<<KV(K_context_used, JBool(contextUsed))>>)),
      KV(K_redirect_to_agent, redirect)>>))

ChatReply(thinking, contextUsed, redirect) ==
    ChatReplyWith(<<"r">>, thinking, contextUsed, redirect)

NeedsHuman ==
    JObj(<<KV(K_should_redirect, JBool(TRUE)), KV(K_reason, JStr(<<"x">>))>>)

\* What the fetch of line 468 settles with: a rejection, or a response.
FetchRejected == [rejected |-> TRUE, response |-> NoResponse]
Fetched(r) == [rejected |-> FALSE, response |-> r]

\* A 200 response whose body is not JSON, as a proxy in between may send.
HtmlPage ==
    [status |-> 200, body |-> <<"<", "h", "t", "m", "l", ">">>,
     xRagSources |-> NoHeader, xDebugData |-> NoHeader]

\* The 200 responses of the route with and without sources, one whose
\* answer is the text "...", its 500 fallback, a page that is not JSON, and
\* a failed connection.
FetchOutcomes ==
    {FetchRejected,
     Fetched(FailureResponse("completion")),
     Fetched(HtmlPage),
     Fetched(SuccessResponse(
               ResponseWithId(SampleUuid, ChatReply(<<SP, "t", NL>>, TRUE, JUndef)),
               <<ToRagSource(FullItem, 0)>>, <<"{", "}">>)),
     Fetched(SuccessResponse(
               ResponseWithId(SampleUuid, ChatReply(<<"t">>, FALSE, JUndef)),
               <<>>, <<"{", "}">>)),
     Fetched(SuccessResponse(
               ResponseWithId(SampleUuid, ChatReply(<<"t">>, FALSE, NeedsHuman)),
               <<>>, <<"{", "}">>)),
     Fetched(SuccessResponse(
               ResponseWithId(SampleUuid,
                              ChatReplyWith(ThreeDots, <<"t">>, FALSE, JUndef)),
               <<>>, <<"{", "}">>))}

\* response.ok
IsOk(r) == r.status >= 200 /\ r.status <= 299

\* Line 488, response.json(), tabulated over the outcomes.
BodyOf == [o \in FetchOutcomes |-> JSONParse(o.response.body)]

\* The contents an assistant message of the transcript can have: that of
\* the placeholder and those of line 529.
AssistantContents ==
    {PlaceholderContent} \cup
    {Stringify(BodyOf[o].v) : o \in {x \in FetchOutcomes : BodyOf[x].ok}}

\* Line 150 of MessageContent, JSON.parse(content), tabulated.
ContentTable == [c \in AssistantContents |-> JSONParse(c)]
ParsedContent(content) ==
    IF content \in AssistantContents THEN ContentTable[content] ELSE JSONParse(content)

\* String.prototype.trim
Trim(s) ==
    LET kept == {i \in DOMAIN s : s[i] \notin WS}
    IN IF kept = {} THEN <<>>
       ELSE SubSeq(s, CHOOSE i \in kept : \A j \in kept : i <= j,
                      CHOOSE i \in kept : \A j \in kept : i >= j)

\* data.thinking?.trim()
TrimmedThinking(data) ==
    IF IsNullish(Get(data, K_thinking)) THEN JUndef
    ELSE JStr(Trim(Get(data, K_thinking).s))

\* Lines 509-517.
RagSourcesEvent(sources, userMessage, data) ==
    [type |-> "updateRagSources",
     detail |-> [sources |-> sources, query |-> userMessage.content,
                 debug |-> Get(data, K_debug)]]

\* Lines 534-542.
SidebarEvent(data) ==
    [type |-> "updateSidebar",
     detail |-> [id |-> Get(data, K_id), content |-> TrimmedThinking(data),
                 user_mood |-> Get(data, K_user_mood), debug |-> Get(data, K_debug),
                 matched_categories |-> Get(data, K_matched_categories)]]

\* Lines 545-551.
RedirectEvents(sub, data) ==
    IF Truthy(Get(data, K_redirect_to_agent))
       /\ Truthy(Get(Get(data, K_redirect_to_agent), K_should_redirect))
    THEN <<Effect("dispatch", sub,
                  [type |-> "agentRedirectRequested",
                   detail |-> Get(data, K_redirect_to_agent)])>>
    ELSE <<>>

\* The updater that overwrites the first message.
ReplaceFirst(prevMessages, message) ==
    IF prevMessages = <<>> THEN prevMessages
    ELSE [prevMessages EXCEPT ![1] = message]

\* Lines 523-532: the updater of setMessages.
ReplaceLast(prevMessages, message) ==
    IF prevMessages = <<>> THEN prevMessages
    ELSE [prevMessages EXCEPT ![Len(prevMessages)] = message]

\* A suspended call of handleSubmit resumed with what its fetch settled with.
Resumed(r, outcome) ==
    [sub |-> r.sub, userMessage |-> r.userMessage, outcome |-> outcome]

\* What a resumed call adds to effects: the outcome it resumed with, then
\* its own calls.
Logged(r, calls) == effects \o <<Effect("settled", r.sub, r.outcome)>> \o calls

\* Lines 552-554: the catch block logs and does nothing else.
Caught(r) ==
    /\ effects' = Logged(r, <<Effect("error", r.sub, r.userMessage.content)>>)
    /\ UNCHANGED <<chatMessages, uuidsDrawn>>

\* Lines 520-551 with the events dispatched at lines 509-517.
Finish(r, answer, data, ragEvents) ==
    /\ chatMessages' = ReplaceLast(chatMessages, answer)
    /\ uuidsDrawn' = uuidsDrawn + 1
    /\ effects' = Logged(r, ragEvents
                             \o <<Effect("replace", r.sub, answer),
                                  Effect("dispatch", r.sub, SidebarEvent(data))>>
                             \o RedirectEvents(r.sub, data))

\* Lines 508-518 once JSON.parse(ragHeader) has settled with sources.
WithSources(r, data, sources) ==
    IF ~sources.ok THEN Caught(r)
    ELSE Finish(r, ChatMessage(uuidsDrawn + 1, "assistant", Stringify(data)), data,
                <<Effect("dispatch", r.sub,
                         RagSourcesEvent(sources.v, r.userMessage, data))>>)

\* updateRagSources dispatched whether or not the header is there.
WithDataAlwaysSources(r, data, ragHeader) ==
    WithSources(r, data,
                IF ragHeader.present THEN JSONParse(ragHeader.value)
                ELSE Ok(JArr(<<>>), 0))

\* Lines 494-518: no response sets x-suggested-questions; x-rag-sources is
\* parsed and published only when it is there and not empty.
WithData(r, data, ragHeader) ==
    IF ragHeader.present /\ ragHeader.value # <<>>
    THEN WithSources(r, data, JSONParse(ragHeader.value))
    ELSE Finish(r, ChatMessage(uuidsDrawn + 1, "assistant", Stringify(data)), data, <<>>)

\* Line 488 once response.json() has settled with parsed.
WithBody(r, resp, parsed) ==
    IF ~parsed.ok THEN Caught(r) ELSE WithData(r, parsed.v, resp.xRagSources)

\* Lines 478-559: handleSubmit resumed when its fetch settles.
Settle ==
    /\ \E r \in inFlight, outcome \in FetchOutcomes :
         /\ inFlight' = inFlight \ {r}
         /\ IF outcome.rejected \/ ~IsOk(outcome.response)
            THEN Caught(Resumed(r, outcome))
            ELSE WithBody(Resumed(r, outcome), outcome.response, BodyOf[outcome])
    /\ isLoading' = FALSE
    /\ UNCHANGED timedOut
    /\ UNCHANGED besideChat

\* Lines 153-157 of MessageContent: the content parses and holds a response
\* that is neither empty nor "...".
HasResponseIn(parsed) ==
    /\ parsed.ok
    /\ parsed.v.t = "obj"
    /\ Get(parsed.v, K_response).t = "str"
    /\ Get(parsed.v, K_response).s \notin {<<>>, ThreeDots}

HasResponse(content) == HasResponseIn(ParsedContent(content))

\* The timer of every assistant message stays armed.
TimerNeverCancelled(message) ==
    /\ message.content # <<>>
    /\ message.role = "assistant"

\* Lines 142-160: the effect arms the timer for an assistant message with
\* content, and line 160 cancels it for a message with a response.
TimerPending(message) ==
    /\ message.content # <<>>
    /\ message.role = "assistant"
    /\ ~HasResponse(message.content)

\* Lines 144-147: the timer of a message fires.
Timeout ==
    /\ \E i \in DOMAIN chatMessages :
         /\ TimerPending(chatMessages[i])
         /\ chatMessages[i].id \notin timedOut
         /\ timedOut' = timedOut \cup {chatMessages[i].id}
    /\ UNCHANGED <<chatMessages, isLoading, inFlight, effects, uuidsDrawn>>
    /\ UNCHANGED besideChat

\* Lines 171-193: what MessageContent shows for a message.
ShownFor(message, parsed) ==
    IF message.role # "assistant" THEN message.content
    ELSE IF HasResponseIn(parsed) THEN Get(parsed.v, K_response).s
    ELSE IF ~parsed.ok \/ message.id \in timedOut THEN SomethingWentWrong
    ELSE ThinkingText

Shown(message) == ShownFor(message, ParsedContent(message.content))

ChatInit ==
    /\ ChatMounted
    /\ FreshBesideChat

ChatNext == Submit \/ Settle \/ Timeout
ChatSpec == ChatInit /\ [][ChatNext]_vars

(***************************************************************************)
(* POST /api/upload: app/api/upload/route.ts.                              *)
(***************************************************************************)

InvalidFileData == <<"I", "n", "v", "a", "l", "i", "d", " ", "f", "i", "l", "e", " ", "d", "a", "t", "a">>
FileTooLarge == <<"F", "i", "l", "e", " ", "t", "o", "o", " ", "l", "a", "r", "g", "e", " ", "(", "m", "a", "x", " ", "1", "0", "M", "B", ")">>
UnsupportedFileType == <<"U", "n", "s", "u", "p", "p", "o", "r", "t", "e", "d", " ", "f", "i", "l", "e", " ", "t", "y", "p", "e">>
AcceptedFormats == <<".", " ", "A", "c", "c", "e", "p", "t", "e", "d", " ", "f", "o", "r", "m", "a", "t", "s", ":", " ", "J", "P", "E", "G", ",", " ", "P", "N", "G", ",", " ", "G", "I", "F", ",", " ", "P", "D", "F", ",", " ", "T", "X", "T", ",", " ", "C", "S", "V", ",", " ", "J", "S", "O", "N">>
FileUploadedSuccessfully == <<"F", "i", "l", "e", " ", "u", "p", "l", "o", "a", "d", "e", "d", " ", "s", "u", "c", "c", "e", "s", "s", "f", "u", "l", "l", "y">>
CannotDestructure == <<"C", "a", "n", "n", "o", "t", " ", "d", "e", "s", "t", "r", "u", "c", "t", "u", "r", "e", " ", "p", "r", "o", "p", "e", "r", "t", "y", " ", "'", "f", "i", "l", "e", "D", "a", "t", "a", "'", " ", "o", "f", " ", "'", "(", "i", "n", "t", "e", "r", "m", "e", "d", "i", "a", "t", "e", " ", "v", "a", "l", "u", "e", ")", "'", " ", "a", "s", " ", "i", "t", " ", "i", "s", " ", "n", "u", "l", "l", ".">>
K_error == <<"e", "r", "r", "o", "r">>
K_message == <<"m", "e", "s", "s", "a", "g", "e">>
K_fileType == <<"f", "i", "l", "e", "T", "y", "p", "e">>
K_fileSize == <<"f", "i", "l", "e", "S", "i", "z", "e">>
K_fileData == <<"f", "i", "l", "e", "D", "a", "t", "a">>
K_base64 == <<"b", "a", "s", "e", "6", "4">>
K_mediaType == <<"m", "e", "d", "i", "a", "T", "y", "p", "e">>
ImageJpeg == <<"i", "m", "a", "g", "e", "/", "j", "p", "e", "g">>
ImagePng == <<"i", "m", "a", "g", "e", "/", "p", "n", "g">>
ImageGif == <<"i", "m", "a", "g", "e", "/", "g", "i", "f">>
ApplicationPdf == <<"a", "p", "p", "l", "i", "c", "a", "t", "i", "o", "n", "/", "p", "d", "f">>
TextPlain == <<"t", "e", "x", "t", "/", "p", "l", "a", "i", "n">>
TextCsv == <<"t", "e", "x", "t", "/", "c", "s", "v">>
ApplicationJson == <<"a", "p", "p", "l", "i", "c", "a", "t", "i", "o", "n", "/", "j", "s", "o", "n">>
MsDownload == <<"a", "p", "p", "l", "i", "c", "a", "t", "i", "o", "n", "/", "x", "-", "m", "s", "d", "o", "w", "n", "l", "o", "a", "d">>
KB == <<"K", "B">>
NaNChars == <<"N", "a", "N">>
K_length == <<"l", "e", "n", "g", "t", "h">>

MAX_SIZE == 10 * 1024 * 1024

\* Lines 28-36.
allowedTypes ==
    <<ImageJpeg, ImagePng, ImageGif, ApplicationPdf, TextPlain, TextCsv, ApplicationJson>>

\* A string of n characters of which only the first is written out.
LongString(n) == [t |-> "str", s |-> IF n = 0 THEN <<>> ELSE <<"A">>, length |-> n]

\* .length of a value parsed from JSON: a number for a string or an array,
\* undefined otherwise (objects with a length key are not among the inputs).
LengthJS(v) ==
    CASE v.t = "str" ->
           [defined |-> TRUE, n |-> IF "length" \in DOMAIN v THEN v.length ELSE Len(v.s)]
      [] v.t = "arr" -> [defined |-> TRUE, n |-> Len(v.a)]
      [] OTHER -> [defined |-> FALSE, n |-> 0]

\* Line 20: length * 0.75 > MAX_SIZE; a comparison with NaN is false.
TooLarge(length) == length.defined /\ 3 * length.n > 4 * MAX_SIZE

\* Line 53: Math.round(base64Size / 1024) + "KB".
FileSizeText(length) ==
    IF length.defined THEN NatChars((3 * length.n + 2048) \div 4096) \o KB
    ELSE NaNChars \o KB

\* Line 38: includes compares with ===.
IsAllowedType(mediaType) ==
    mediaType.t = "str" /\ \E i \in DOMAIN allowedTypes : allowedTypes[i] = mediaType.s

UploadResponse(status, body) == [status |-> status, body |-> Stringify(body)]
UploadError(status, text) == UploadResponse(status, JObj(<<KV(K_error, JStr(text))>>))

\* Lines 9-57 for the fileData of the body.
Checked(fileData) ==
    IF \/ ~Truthy(fileData)
       \/ ~Truthy(Get(fileData, K_base64))
       \/ ~Truthy(Get(fileData, K_fileName))
       \/ ~Truthy(Get(fileData, K_mediaType))
    THEN UploadError(400, InvalidFileData)
    ELSE IF TooLarge(LengthJS(Get(fileData, K_base64)))
    THEN UploadError(400, FileTooLarge)
    ELSE IF ~IsAllowedType(Get(fileData, K_mediaType))
    THEN UploadError(400, UnsupportedFileType \o AcceptedFormats)
    ELSE UploadResponse(200, JObj(<<
           KV(K_message, JStr(FileUploadedSuccessfully)),
           KV(K_fileName, Get(fileData, K_fileName)),
           KV(K_fileType, Get(fileData, K_mediaType)),
           KV(K_fileSize, JStr(FileSizeText(LengthJS(Get(fileData, K_base64)))))>>))

\* Lines 5-67: destructuring null throws a TypeError, which the catch block
\* of line 59 answers with 500 and the error's message.
uploadPOST(body) ==
    IF body.t = "null" THEN UploadError(500, CannotDestructure)
    ELSE Checked(Get(body, K_fileData))

\* The longest base64 text within the limit, and the first one beyond it.
LargestAccepted == (4 * MAX_SIZE) \div 3
Base64Choices ==
    {JUndef, JNull, JStr(<<>>), JStr(<<"Q", "Q", "=", "=">>), JNum(5), JBool(TRUE),
     LongString(LargestAccepted), LongString(LargestAccepted + 1)}
FileNameChoices == {JUndef, JStr(<<>>), JStr(<<"a", ".", "j", "p", "g">>), JNum(1)}
MediaTypeChoices ==
    {JUndef, JStr(<<>>), JStr(MsDownload), JStr(<<"I", "M", "A", "G", "E", "/", "P", "N", "G">>),
     JNum(1), JArr(<<JStr(ImagePng)>>)}
    \cup {JStr(allowedTypes[i]) : i \in DOMAIN allowedTypes}

FileData(base64, fileName, mediaType) ==
    JObj(Present(<<KV(K_fileName, fileName), KV(K_mediaType, mediaType),
                   KV(K_base64, base64)>>))

\* The values a JSON body can parse to.
UploadBodies ==
    {JNull, JNum(1), JStr(<<"x">>), JBool(TRUE), JArr(<<>>), JObj(<<>>),
     JObj(<<KV(K_fileData, JNull)>>), JObj(<<KV(K_fileData, JStr(<<"x">>))>>),
     JObj(<<KV(K_fileData, JBool(TRUE))>>), JObj(<<KV(K_fileData, JArr(<<>>))>>)}
    \cup {JObj(<<KV(K_fileData, FileData(b, f, m))>>) :
            b \in Base64Choices, f \in FileNameChoices, m \in MediaTypeChoices}

UploadInit ==
    /\ uploadRequest \in UploadBodies
    /\ uploadResponse = NoUpload
    /\ FreshBesideUpload

Upload ==
    /\ uploadResponse = NoUpload
    /\ uploadRequest # JUndef
    /\ uploadResponse' = uploadPOST(uploadRequest)
    /\ UNCHANGED uploadRequest
    /\ UNCHANGED besideUpload

UploadNext == Upload
UploadSpec == UploadInit /\ [][UploadNext]_vars

(***************************************************************************)
(* LeftSidebar: components/LeftSidebar.tsx.  The detail of an event is a   *)
(* record of id and content.                                               *)
(***************************************************************************)

MAX_THINKING_HISTORY == 15

MaxDeliveries == 18

\* The id of the n-th answer.
SidebarId(n) == JStr(<<"i">> \o NatChars(n))

Detail(id, content) == [id |-> id, content |-> JStr(content)]

\* Array.prototype.slice(0, n)
SliceTo0(s, n) == SubSeq(s, 1, IF Len(s) < n THEN Len(s) ELSE n)

\* Lines 65-68: the detail with a timestamp.
enhancedEntry(detail) ==
    [id |-> detail.id, content |-> detail.content, timestamp |-> IsoTimestamp]

\* The updater without the check of line 57.
thinkingUpdaterAlwaysAdds(prev, detail) ==
    SliceTo0(<<enhancedEntry(detail)>> \o prev, MAX_THINKING_HISTORY)

\* Lines 56-78: the updater of setThinkingContents.
thinkingUpdater(prev, detail) ==
    IF \E i \in DOMAIN prev : prev[i].id = detail.id THEN prev
    ELSE SliceTo0(<<enhancedEntry(detail)>> \o prev, MAX_THINKING_HISTORY)

\* Lines 53-82.
handleUpdateSidebar(prev, detail) ==
    IF Truthy(detail.id) THEN thinkingUpdater(prev, detail) ELSE prev

\* An updateSidebar event is delivered.
Deliver(detail) ==
    /\ sidebarClock < MaxDeliveries
    /\ sidebarClock' = sidebarClock + 1
    /\ lastDetail' = detail
    /\ deliveredIds' = IF Truthy(detail.id) THEN deliveredIds \cup {detail.id}
                       ELSE deliveredIds
    /\ thinkingContents' = handleUpdateSidebar(thinkingContents, detail)
    /\ UNCHANGED besideSidebar

\* The event of a new answer.
DeliverNew == Deliver(Detail(SidebarId(Cardinality(deliveredIds) + 1), <<"a">>))

\* An event with an id that was delivered before, and another content.
DeliverAgain == \E id \in deliveredIds : Deliver(Detail(id, <<"b">>))

\* An event whose id is missing or empty.
DeliverWithoutId ==
    \E id \in {JUndef, JStr(<<>>)} : Deliver(Detail(id, <<"a">>))

SidebarInit ==
    /\ SidebarMounted
    /\ FreshBesideSidebar

SidebarNext == DeliverNew \/ DeliverAgain \/ DeliverWithoutId
SidebarSpec == SidebarInit /\ [][SidebarNext]_vars

(***************************************************************************)
(* Properties                                                              *)
(***************************************************************************)
\* POST has returned a Response.
Responded == pc = "done"
\* POST has returned after the completion API answered with a message.
Generated == pc = "done" /\ completion # ApiThrow
\* The retrieval is over.
RetrievalDone == pc \in {"generate", "done"}

IsAsciiOnly(s) == \A i \in DOMAIN s : s[i] \notin NonAscii
WithoutNonAscii(s) == SelectSeq(s, LAMBDA c : c \notin NonAscii)

\* The fallback body of section 4.5 of the specification.
FallbackBody ==
    Stringify(JObj(<<
      KV(K_response, JStr(ApologyText)),
      KV(K_thinking, JStr(ErrorNote)),
      KV(K_user_mood, JStr(Neutral)),
      KV(K_debug, JObj(<<KV(K_context_used, JBool(FALSE))>>))>>))

IsFallback(r) ==
    /\ r.status = 500
    /\ r.body = FallbackBody
    /\ ~r.xRagSources.present
    /\ ~r.xDebugData.present

\* A required StructuredReply field is missing or has the wrong type.
LacksRequiredField(v) ==
    \/ Get(v, K_response).t # "str"
    \/ Get(v, K_thinking).t # "str"
    \/ Get(v, K_user_mood) \notin
         {JStr(Positive), JStr(Neutral), JStr(Negative), JStr(Curious),
          JStr(Frustrated), JStr(Confused)}
    \/ Get(v, K_suggested_questions).t # "arr"
    \/ \E q \in {Get(v, K_suggested_questions)} :
          q.t = "arr" /\ \E i \in DOMAIN q.a : q.a[i].t # "str"
    \/ Get(v, K_debug).t # "obj"
    \/ Get(Get(v, K_debug), K_context_used).t # "bool"

\* An optional StructuredReply field is present and has the wrong type.
HasBadOptionalField(v) ==
    \/ \E c \in {Get(v, K_matched_categories)} :
          /\ c.t # "undefined"
          /\ (c.t # "arr" \/ \E i \in DOMAIN c.a : c.a[i].t # "str")
    \/ \E r \in {Get(v, K_redirect_to_agent)} :
          /\ r.t # "undefined"
          /\ \/ r.t # "obj"
             \/ Get(r, K_should_redirect).t # "bool"
             \/ Get(r, K_reason).t \notin {"str", "undefined"}

\* C1: every request to POST /api/chat, also one whose body is not JSON,
\* has no messages or an empty messages array, gets a response with status
\* 200 or 500, and no exception escapes the handler.
C1_EveryRequestIsAnswered ==
    /\ pc # "uncaught"
    /\ Responded => response.status \in {200, 500}

\* C2: when the parsed output of the model lacks a required StructuredReply
\* field, or has one of the wrong type, or a user_mood outside the six
\* values, the route answers 500 with the fallback body, never 200.
C2_InvalidReplyIsRejected ==
    (Generated /\ parsedResponse.ok /\ LacksRequiredField(parsedResponse.v))
        => IsFallback(response)

\* The model left out user_mood and the route answered 500.
C2_Witness ==
    /\ Generated
    /\ parsedResponse.ok
    /\ Get(parsedResponse.v, K_user_mood).t = "undefined"
    /\ response.status = 500

\* C3: the system prompt embeds either a non-empty retrieved context or the
\* marker "No information found for this query.", never an empty string.
C3_PromptNeverEmbedsEmptyContext ==
    RetrievalDone =>
        /\ systemPrompt # <<>>
        /\ \/ systemPrompt = NoInformationFound
           \/ systemPrompt = retrievedContext /\ retrievedContext # <<>>

\* The i-th code unit of s is a quote that no backslash escapes.
IsStringDelimiter(s, i) ==
    /\ s[i] = DQ
    /\ LET others == {k \in 1..(i - 1) : s[k] # BS}
           start == IF others = {} THEN 0
                    ELSE CHOOSE k \in others : \A k2 \in others : k2 <= k
       IN (i - 1 - start) % 2 = 0

\* The i-th code unit of s lies inside a string literal.
InStringLiteral(s, i) ==
    Cardinality({j \in 1..(i - 1) : IsStringDelimiter(s, j)}) % 2 = 1

HasRawNewlineInString(s) == \E i \in DOMAIN s : s[i] = NL /\ InStringLiteral(s, i)

\* s with every line break inside a string literal written as \n.
WithNewlinesEscaped(s) ==
    Concat([i \in DOMAIN s |->
              IF s[i] = NL /\ InStringLiteral(s, i) THEN <<BS, "n">> ELSE <<s[i]>>])

\* What each text of the environment decodes to once the line breaks inside
\* its string literals are escaped.
IntendedValue ==
    [text \in {TextContent(o.content) : o \in CompletionOutcomes \ {ApiThrow}} |->
       [raw |-> HasRawNewlineInString(text),
        parsed |-> JSONParse(WithNewlinesEscaped(text))]]

\* C4: a text that is valid JSON but for raw line breaks inside its string
\* values (strings with escaped quotes and strings in arrays included) is
\* parsed by sanitizeAndParseJSON, and the decoded strings hold the line
\* breaks where the raw ones were.
C4_RawNewlinesAreRepaired ==
    (Generated /\ IntendedValue[textContent].raw /\ IntendedValue[textContent].parsed.ok)
        => /\ parsedResponse.ok
           /\ parsedResponse.v = IntendedValue[textContent].parsed.v

\* C5: with an empty or missing knowledgeBaseId, retrieveContext returns an
\* empty context, isRagWorking false and no sources, does not throw, and
\* sends nothing to the retrieval service.
C5_NoKnowledgeBaseNoRetrieval ==
    (RetrievalDone /\ knowledgeBaseId \in {JUndef, JStr(<<>>)})
        => /\ retrievedContext = <<>>
           /\ isRagWorking = FALSE
           /\ ragSources = <<>>
           /\ bedrockCalls = 0
           /\ svc = NotCalled

\* The request had an empty knowledgeBaseId and the retrieval step is over.
C5_Witness ==
    /\ pc = "generate"
    /\ knowledgeBaseId = JStr(<<>>)
    /\ bedrockCalls = 0

\* The shape of a RetrieveCommandOutput: results that are objects whose
\* content holds a text, with a string uri and a numeric score where given.
IsRetrieveOutput(v) ==
    /\ v.t = "obj"
    /\ Get(v, K_retrievalResults).t = "arr"
    /\ \A i \in DOMAIN Get(v, K_retrievalResults).a :
          LET item == Get(v, K_retrievalResults).a[i] IN
          /\ item.t = "obj"
          /\ Get(Get(item, K_content), K_text).t = "str"
          /\ Get(Get(Get(item, K_location), K_s3Location), K_uri).t \in {"str", "undefined"}
          /\ Get(item, K_score).t \in {"num", "undefined"}

\* C6: when the retrieval call throws or returns a malformed response,
\* retrieveContext returns an empty context, isRagWorking false and no
\* sources, and the route goes on to the completion call.
C6_FailedRetrievalIsUnavailable ==
    (RetrievalDone /\ svc # NotCalled /\ (svc = SvcThrow \/ ~IsRetrieveOutput(svc)))
        => /\ retrievedContext = <<>>
           /\ isRagWorking = FALSE
           /\ ragSources = <<>>

\* The results of a response that have a text to use.
UsableResults(v) ==
    {i \in DOMAIN Get(v, K_retrievalResults).a :
        Get(Get(Get(v, K_retrievalResults).a[i], K_content), K_text).t = "str"
        /\ Get(Get(Get(v, K_retrievalResults).a[i], K_content), K_text).s # <<>>}

IsUnitScore(v) == v.t = "num" /\ (v.n = 0 \/ (v.n = 1 /\ v.f = 0))

\* The x-rag-sources header holds a JSON array of exactly one source whose
\* score lies in [0, 1].
HeaderHoldsOneSource(r) ==
    /\ r.xRagSources.present
    /\ LET h == JSONParse(r.xRagSources.value) IN
       /\ h.ok
       /\ h.v.t = "arr"
       /\ Len(h.v.a) = 1
       /\ IsUnitScore(Get(h.v.a[1], K_score))

C8_SourcesHeaderIffSources ==
    (Responded /\ response.status = 200)
        => /\ response.xRagSources.present <=> ragSources # <<>>
           /\ response.xRagSources.present =>
                /\ response.xRagSources.value = WithoutNonAscii(Stringify(JArr(ragSources)))
                /\ IsAsciiOnly(response.xRagSources.value)

\* A 200 response whose source list holds a character outside ASCII.
C8_Witness ==
    /\ Responded
    /\ response.status = 200
    /\ response.xRagSources.present
    /\ ~IsAsciiOnly(Stringify(JArr(ragSources)))

\* The keys of an object, in order.
KeysOf(v) == [i \in DOMAIN v.m |-> v.m[i].k]

\* C9: every 200 response carries an X-Debug-Data header that is ASCII, at
\* most 1000 characters long, and parses as a JSON object with exactly the
\* keys msg, data and timestamp.
C9_DebugHeaderIsCappedAsciiJson ==
    (Responded /\ response.status = 200)
        => /\ response.xDebugData.present
           /\ IsAsciiOnly(response.xDebugData.value)
           /\ Len(response.xDebugData.value) <= 1000
           /\ LET d == JSONParse(response.xDebugData.value) IN
              /\ d.ok
              /\ d.v.t = "obj"
              /\ KeysOf(d.v) = <<K_msg, K_data, K_timestamp>>

\* A 200 response to a request made under a key with non-ASCII characters.
C9_Witness ==
    /\ Responded
    /\ response.status = 200
    /\ response.xDebugData.present
    /\ apiKey.t = "str"
    /\ ~IsAsciiOnly(apiKey.s)

\* The completion call threw, the text is no JSON, or the schema rejects it.
GenerationFailed ==
    \/ completion = ApiThrow
    \/ completion # ApiThrow /\ ~parsedResponse.ok
    \/ completion # ApiThrow /\ parsedResponse.ok
         /\ (LacksRequiredField(parsedResponse.v) \/ HasBadOptionalField(parsedResponse.v))

\* C10: whenever the completion call throws, the text of the model is no
\* JSON or the schema validation fails, the route answers 500 with one
\* fixed body, the same for every cause and without any detail of the error.
C10_OneFallbackForEveryFailure ==
    Responded =>
        /\ GenerationFailed => response.status = 500
        /\ response.status = 500 => IsFallback(response)

\* The completion call threw and the route answered 500.
C10_Witness ==
    /\ Responded
    /\ completion = ApiThrow
    /\ response.status = 500

\* C11: the 500 fallback body leaves out only the optional StructuredReply
\* fields: every field the schema requires is in it with the required type.
C11_FallbackHasEveryRequiredField ==
    (Responded /\ response.status = 500) =>
        LET b == JSONParse(response.body)
        IN b.ok /\ ~LacksRequiredField(b.v)

\* The keys of the schema, and those of its nested objects.
SchemaKeys ==
    {K_response, K_thinking, K_user_mood, K_suggested_questions, K_debug,
     K_matched_categories, K_redirect_to_agent}

OnlyKeys(v, keys) == v.t = "obj" => \A i \in DOMAIN v.m : v.m[i].k \in keys

\* C12: every 200 body carries an id that the route generated; an id or
\* any other key outside the schema that the model wrote never reaches the
\* body, and the 500 fallback carries no id.
C12_IdIsTheRoutesOwn ==
    Responded =>
        LET b == JSONParse(response.body) IN
        /\ b.ok
        /\ b.v.t = "obj"
        /\ response.status = 200 =>
             /\ Get(b.v, K_id).t = "str"
             /\ Get(b.v, K_id).s \in Uuids
             /\ OnlyKeys(b.v, SchemaKeys \cup {K_id})
             /\ OnlyKeys(Get(b.v, K_debug), {K_context_used})
             /\ OnlyKeys(Get(b.v, K_redirect_to_agent), {K_should_redirect, K_reason})
        /\ response.status = 500 => ~HasKey(b.v, K_id)

\* The model wrote an id of its own and the route answered 200.
C12_Witness ==
    /\ Generated
    /\ response.status = 200
    /\ parsedResponse.ok
    /\ HasKey(parsedResponse.v, K_id)

\* The text blocks of a message, in order.
TextBlocksOf(content) == SelectSeq(content, LAMBDA b : Get(b, K_type) = JStr(TextType))

\* C13: the list sent to the completion API is the request's messages in
\* their order, each reduced to role and content, followed by exactly one
\* message {role: "assistant", content: "{"}; the request's messages are
\* left as they were, and the text handed to the parser is "{" followed by
\* the text blocks of the model.
C13_PrimedTurnIsAppendedOnce ==
    Responded =>
        LET req == Get(JSONParse(reqBody).v, K_messages).a
            texts == TextBlocksOf(completion.content)
        IN /\ messages = JArr(req)
           /\ Len(anthropicMessages) = Len(req) + 1
           /\ \A i \in DOMAIN req :
                anthropicMessages[i] =
                  JObj(<<KV(K_role, Get(req[i], K_role)),
                         KV(K_content, Get(req[i], K_content))>>)
           /\ anthropicMessages[Len(req) + 1] =
                JObj(<<KV(K_role, JStr(<<"a", "s", "s", "i", "s", "t", "a", "n", "t">>)),
                       KV(K_content, JStr(<<"{">>))>>)
           /\ Generated =>
                textContent =
                  <<"{">> \o Join([i \in DOMAIN texts |-> Get(texts[i], K_text).s], <<SP>>)

\* Two messages with ids in the request, a reply in two text blocks.
C13_Witness ==
    /\ Generated
    /\ Len(messages.a) = 2
    /\ HasKey(messages.a[1], K_id)
    /\ Len(anthropicMessages) = 3
    /\ Len(TextBlocksOf(completion.content)) = 2

\* C14: within one invocation the completion call is issued only after the
\* retrieval has completed, and it is issued at most once: no step issues a
\* second one, whatever the first one ended in.
C14_OneCompletionCallAfterRetrieval ==
    [][/\ anthropicCalls' \in {anthropicCalls, anthropicCalls + 1}
       /\ bedrockCalls' # bedrockCalls => anthropicCalls = 0 /\ anthropicCalls' = 0
       /\ anthropicCalls' # anthropicCalls =>
            /\ anthropicCalls = 0
            /\ RetrievalDone
            /\ bedrockCalls' = bedrockCalls]_vars

\* The retrieval was attempted, the one completion call failed, and the
\* route has answered.
C14_Witness ==
    /\ Responded
    /\ bedrockCalls = 1
    /\ anthropicCalls = 1
    /\ response.status = 500

\* Serialized, parsed back and validated again, v is accepted and comes
\* out equal.
SurvivesRoundTrip(v, text) ==
    /\ text.ok
    /\ responseSchemaParse(text.v) = [ok |-> TRUE, v |-> v]

\* C15: every object the route accepts as a validated StructuredReply, when
\* serialized to JSON, parsed back and validated again, is accepted and
\* equal to the original.
C15_ValidationIsIdempotent ==
    (Generated /\ response.status = 200) =>
        \A validated \in {responseSchemaParse(parsedResponse.v)} :
            /\ validated.ok
            /\ SurvivesRoundTrip(validated.v, JSONParse(Stringify(validated.v)))

\* An accepted reply whose response holds a line break and has optional
\* fields.
C15_Witness ==
    /\ Generated
    /\ response.status = 200
    /\ \E i \in DOMAIN Get(parsedResponse.v, K_response).s :
          Get(parsedResponse.v, K_response).s[i] = NL

\* C16: when the request's knowledgeBaseId is empty, the system prompt
\* holds "No information found for this query." and every 200 response to
\* the request has debug.context_used false.
C16_NoKnowledgeBaseNoContextUsed ==
    (Responded /\ knowledgeBaseId = JStr(<<>>)) =>
        /\ systemPrompt = NoInformationFound
        /\ response.status = 200 =>
             Get(Get(JSONParse(response.body).v, K_debug), K_context_used) = JBool(FALSE)

\* An assistant message whose content parses to a reply with response "".
IsPlaceholder(message) ==
    /\ message.role = "assistant"
    /\ ParsedContent(message.content).ok
    /\ Get(ParsedContent(message.content).v, K_response) = JStr(<<>>)

\* The effects a step adds.
NewEffects == SubSeq(effects', Len(effects) + 1, Len(effects'))

\* C17: a submission first issues the transcript update that appends the
\* user's message and then a placeholder whose response is "", and only
\* then starts the fetch; the request body holds the transcript as it was
\* before, followed by the user's message, and not the placeholder.
C17_PlaceholderBeforeFetch ==
    [][Submissions' # Submissions =>
         /\ Len(NewEffects) = 2
         /\ NewEffects[1].op = "append"
         /\ NewEffects[2].op = "fetch"
         /\ Len(NewEffects[1].arg) = 2
         /\ NewEffects[1].arg[1].role = "user"
         /\ NewEffects[1].arg[1].content \in Inputs
         /\ IsPlaceholder(NewEffects[1].arg[2])
         /\ chatMessages' = chatMessages \o NewEffects[1].arg
         /\ NewEffects[2].arg.messages = Append(chatMessages, NewEffects[1].arg[1])
         /\ \A k \in DOMAIN NewEffects[2].arg.messages :
              NewEffects[2].arg.messages[k] # NewEffects[1].arg[2]]_vars

\* A second submission has started its fetch with the earlier turns in
\* the body, while its placeholder ends the transcript.
C17_Witness ==
    /\ Submissions = 2
    /\ effects[Len(effects)].op = "fetch"
    /\ Len(effects[Len(effects)].arg.messages) = 3
    /\ Len(chatMessages) = 4
    /\ IsPlaceholder(chatMessages[4])

\* The requests that a step settles.
SettledNow == inFlight \ inFlight'

FailedSubmissions == {effects[i].sub : i \in {j \in DOMAIN effects : effects[j].op = "error"}}

\* The placeholder a submission appended.
PlaceholderOf(sub) ==
    effects[CHOOSE i \in DOMAIN effects :
              effects[i].op = "append" /\ effects[i].sub = sub].arg[2]

\* How many requests a submission has started.
FetchesOf(sub) ==
    Cardinality({i \in DOMAIN effects : effects[i].op = "fetch" /\ effects[i].sub = sub})

\* C19: once the request of a submission has failed, that submission has
\* started no second request, and its placeholder is gone from the
\* transcript or shown as the static "please try again" message.
C19_FailureShowsTryAgain ==
    \A sub \in FailedSubmissions :
        /\ FetchesOf(sub) = 1
        /\ \A i \in DOMAIN chatMessages :
             chatMessages[i].id = PlaceholderOf(sub).id =>
               Shown(chatMessages[i]) = SomethingWentWrong

\* The outcomes the submissions have resumed with, as entries of effects.
SettledEntries == {i \in DOMAIN effects : effects[i].op = "settled"}

\* The events of a type that a submission has dispatched.
EventsOf(sub, type) ==
    {i \in DOMAIN effects :
       /\ effects[i].op = "dispatch"
       /\ effects[i].sub = sub
       /\ effects[i].arg.type = type}

\* A request succeeded: a response with an OK status and a JSON body.
Succeeded(outcome) ==
    /\ ~outcome.rejected
    /\ IsOk(outcome.response)
    /\ BodyOf[outcome].ok

\* C20 as stated: every successful response publishes updateRagSources and
\* updateSidebar once each, and a failed request publishes neither.
C20_BothEventsOnEverySuccess ==
    \A i \in SettledEntries :
        IF Succeeded(effects[i].arg)
        THEN /\ Cardinality(EventsOf(effects[i].sub, "updateRagSources")) = 1
             /\ Cardinality(EventsOf(effects[i].sub, "updateSidebar")) = 1
        ELSE /\ EventsOf(effects[i].sub, "updateRagSources") = {}
             /\ EventsOf(effects[i].sub, "updateSidebar") = {}

\* The user message a submission appended.
UserMessageOf(sub) ==
    effects[CHOOSE i \in DOMAIN effects :
              effects[i].op = "append" /\ effects[i].sub = sub].arg[1]

\* The detail of updateSidebar for the body of a successful response.
SidebarDetailFor(data) ==
    [id |-> Get(data, K_id),
     content |-> IF Get(data, K_thinking).t = "str"
                 THEN JStr(Trim(Get(data, K_thinking).s)) ELSE JUndef,
     user_mood |-> Get(data, K_user_mood),
     debug |-> Get(data, K_debug),
     matched_categories |-> Get(data, K_matched_categories)]

\* C20 (amended): on every successful response updateSidebar is published
\* exactly once, with the reply's id, its trimmed thinking, user_mood and
\* debug; updateRagSources is published exactly once, with the sources of
\* the x-rag-sources header, the submitted query and debug, when the
\* response has that header, and not at all when it has none; a failed
\* request publishes neither.
C20_SidebarAlwaysSourcesWhenSent ==
    \A i \in SettledEntries :
        LET sub == effects[i].sub
            outcome == effects[i].arg
            rag == EventsOf(sub, "updateRagSources")
            sidebar == EventsOf(sub, "updateSidebar")
        IN IF ~Succeeded(outcome) THEN rag = {} /\ sidebar = {}
           ELSE /\ Cardinality(sidebar) = 1
                /\ \A j \in sidebar :
                     effects[j].arg.detail =
                       SidebarDetailFor(BodyOf[outcome].v)
                /\ IF outcome.response.xRagSources.present
                   THEN /\ Cardinality(rag) = 1
                        /\ \A j \in rag :
                             /\ effects[j].arg.detail.sources =
                                  JSONParse(outcome.response.xRagSources.value).v
                             /\ effects[j].arg.detail.query = UserMessageOf(sub).content
                             /\ effects[j].arg.detail.debug =
                                  Get(BodyOf[outcome].v, K_debug)
                             /\ \A k \in sidebar : j < k
                   ELSE rag = {}

\* One answer came with sources and one without: one updateRagSources
\* event and two updateSidebar events have been published.
C20_Witness ==
    /\ Cardinality({i \in SettledEntries : Succeeded(effects[i].arg)}) = 2
    /\ Cardinality({i \in DOMAIN effects :
                      effects[i].op = "dispatch"
                      /\ effects[i].arg.type = "updateRagSources"}) = 1
    /\ Cardinality({i \in DOMAIN effects :
                      effects[i].op = "dispatch"
                      /\ effects[i].arg.type = "updateSidebar"}) = 2

UploadAnswered == uploadResponse # NoUpload

\* The conditions under which an upload is to be accepted.
UploadIsAcceptable(fileData) ==
    /\ Truthy(Get(fileData, K_base64))
    /\ Truthy(Get(fileData, K_fileName))
    /\ Truthy(Get(fileData, K_mediaType))
    /\ ~TooLarge(LengthJS(Get(fileData, K_base64)))
    /\ IsAllowedType(Get(fileData, K_mediaType))

\* A complete upload within the size limit whose type is not whitelisted.
UploadHasForeignType(fileData) ==
    /\ Truthy(Get(fileData, K_base64))
    /\ Truthy(Get(fileData, K_fileName))
    /\ Truthy(Get(fileData, K_mediaType))
    /\ ~TooLarge(LengthJS(Get(fileData, K_base64)))
    /\ ~IsAllowedType(Get(fileData, K_mediaType))

Contains(s, part) == \E i \in DOMAIN s : Matches(s, i, part)

\* What the upload route is to answer to a body with this fileData.
UploadAnswersAsStated(fileData, status, answer) ==
    /\ answer.ok
    /\ IF UploadIsAcceptable(fileData)
       THEN /\ status = 200
            /\ Get(answer.v, K_message) = JStr(FileUploadedSuccessfully)
            /\ Get(answer.v, K_fileName) = Get(fileData, K_fileName)
            /\ Get(answer.v, K_fileType) = Get(fileData, K_mediaType)
       ELSE /\ status = 400
            /\ Get(answer.v, K_error).t = "str"
            /\ Get(answer.v, K_error).s # <<>>
            /\ UploadHasForeignType(fileData) =>
                 Contains(Get(answer.v, K_error).s, UnsupportedFileType)

\* C21: every body that parses as JSON is answered with 200, the success
\* message and the request's fileName and mediaType exactly when fileData is
\* complete, within the size limit and of a whitelisted type, and with 400
\* and an error message otherwise, which names the unsupported type when
\* the type alone is at fault.
C21_UploadAnswers200Or400 ==
    UploadAnswered =>
        UploadAnswersAsStated(Get(uploadRequest, K_fileData), uploadResponse.status,
                              JSONParse(uploadResponse.body))

\* Every body other than null is answered in that way.
UploadAnswersUnlessNull ==
    (UploadAnswered /\ uploadRequest # JNull) =>
        UploadAnswersAsStated(Get(uploadRequest, K_fileData), uploadResponse.status,
                              JSONParse(uploadResponse.body))

\* The ids the history holds.
HeldIds(history) == {history[i].id : i \in DOMAIN history}

\* No two entries with one id, at most MAX_THINKING_HISTORY entries.
HistoryIsSound(history) ==
    /\ \A i, j \in DOMAIN history : history[i].id = history[j].id => i = j
    /\ Len(history) <= MAX_THINKING_HISTORY
    /\ \A i \in DOMAIN history : Truthy(history[i].id)

\* A change of the history puts the entry of the event in front of the
\* entries held, which keep their order, and drops the oldest beyond the cap.
NewestFirst ==
    thinkingContents' # thinkingContents =>
        /\ thinkingContents'[1].id = lastDetail'.id
        /\ thinkingContents'[1].content = lastDetail'.content
        /\ SubSeq(thinkingContents', 2, Len(thinkingContents')) =
             SliceTo0(thinkingContents, MAX_THINKING_HISTORY - 1)

Delivered == sidebarClock' = sidebarClock + 1

AssistantMessages == {i \in DOMAIN chatMessages : chatMessages[i].role = "assistant"}

ParseFailed(message) == ~ParsedContent(message.content).ok

\* The content parses and holds a response that is a string with characters.
NonEmptyResponse(message) ==
    LET parsed == ParsedContent(message.content)
    IN /\ parsed.ok
       /\ parsed.v.t = "obj"
       /\ Get(parsed.v, K_response).t = "str"
       /\ Get(parsed.v, K_response).s # <<>>

ResponseOf(message) == Get(ParsedContent(message.content).v, K_response).s

\* C23 as stated: the fallback is shown for an assistant message only if its
\* content failed to parse or its timer fired while it held no non-empty
\* response; the timer never fires for a message with a non-empty
\* response, and such a message is displayed.
C23_FallbackOnlyWithoutNonEmptyResponse ==
    \A i \in AssistantMessages :
        LET message == chatMessages[i]
        IN /\ Shown(message) = SomethingWentWrong =>
                \/ ParseFailed(message)
                \/ message.id \in timedOut /\ ~NonEmptyResponse(message)
           /\ NonEmptyResponse(message) =>
                /\ message.id \notin timedOut
                /\ Shown(message) = ResponseOf(message)

\* C23 (amended): the fallback is shown for an assistant message only if its
\* content failed to parse or its timer fired while it held no response
\* other than "" and "..."; the timer never fires for a message with such a
\* response, and that response is displayed, also when the timer of the
\* placeholder it replaced had fired.
C23_FallbackOnlyWithoutRealResponse ==
    \A i \in AssistantMessages :
        LET message == chatMessages[i]
        IN /\ Shown(message) = SomethingWentWrong =>
                \/ ParseFailed(message)
                \/ message.id \in timedOut /\ ~HasResponse(message.content)
           /\ message.id \in timedOut => Shown(message) = SomethingWentWrong
           /\ HasResponse(message.content) =>
                /\ message.id \notin timedOut
                /\ Shown(message) = ResponseOf(message)

\* The timer of a placeholder fired and its answer is displayed in its
\* place; the timer of an answer "..." fired and the fallback is shown.
C23_Witness ==
    /\ \E id \in timedOut : \A i \in DOMAIN chatMessages : chatMessages[i].id # id
    /\ \E i \in AssistantMessages :
         /\ HasResponse(chatMessages[i].content)
         /\ Shown(chatMessages[i]) = <<"r">>
    /\ \E i \in AssistantMessages :
         /\ ResponseOf(chatMessages[i]) = ThreeDots
         /\ chatMessages[i].id \in timedOut
         /\ Shown(chatMessages[i]) = SomethingWentWrong

(***************************************************************************)
(* utils/chatStorage.ts, and the finance page and LeftNavBar that use it.  *)
(* createdAt and updatedAt are left out: only the sorting of the lists     *)
(* reads them.                                                             *)
(***************************************************************************)
\* The sessions created in all, and the requests AIChat sends.
MaxChats == 2
MaxFinanceSubmissions == 1
TitlePreviewLength == 40

NewChatTitle == <<"N", "e", "w", " ", "C", "h", "a", "t">>
CustomTitle == <<"T">>
ThinkingContent == <<"t", "h", "i", "n", "k", "i", "n", "g">>
ApologyContent == <<"I", " ", "a", "p", "o", "l", "o", "g", "i", "z", "e">>
AnswerContent == <<"o", "k">>

\* A file key whose value is undefined, and a message without the key.
FileUndefined == "undefined"
FileAbsent == "absent"

\* The id of a message is left out: nothing reads it.
FinanceMessage(role, content, file) ==
    [role |-> role, content |-> content, file |-> file]

ChatSession(id, title, msgs, model) ==
    [id |-> id, title |-> title, messages |-> msgs, model |-> model]

\* JSON.parse(JSON.stringify(chat)): a key whose value is undefined is
\* not written.
JsonCopy(chat) ==
    [chat EXCEPT !.messages =
       [i \in DOMAIN chat.messages |->
          [chat.messages[i] EXCEPT
             !.file = IF chat.messages[i].file = FileUndefined
                      THEN FileAbsent ELSE chat.messages[i].file]]]

\* existingChats.findIndex(c => c.id === id), counted from 1; 0 when absent.
FindIndex(chats, id) ==
    IF \E i \in DOMAIN chats : chats[i].id = id
    THEN CHOOSE i \in DOMAIN chats :
           chats[i].id = id /\ \A j \in 1..(i - 1) : chats[j].id # id
    ELSE 0

\* The session is put at the end whether or not its id is stored.
saveChatAlwaysPushes(chats, chat) == Append(chats, JsonCopy(chat))

\* Lines 19-39: what is stored after saveChat(chat).
saveChat(chats, chat) ==
    IF FindIndex(chats, chat.id) > 0
    THEN [chats EXCEPT ![FindIndex(chats, chat.id)] = JsonCopy(chat)]
    ELSE Append(chats, JsonCopy(chat))

\* Lines 59-66: the session, or null.
NoSession == [id |-> NoChat]
getChatById(chats, id) ==
    IF FindIndex(chats, id) > 0 THEN chats[FindIndex(chats, id)] ELSE NoSession

\* The sessions before the one stored under the id are kept, the rest
\* dropped.
deleteChatAndLater(chats, id) ==
    IF FindIndex(chats, id) > 0 THEN SubSeq(chats, 1, FindIndex(chats, id) - 1)
    ELSE chats

\* Lines 71-76: chats.filter(chat => chat.id !== id).
deleteChat(chats, id) == SelectSeq(chats, LAMBDA chat : chat.id # id)

\* Lines 86-97.
createNewChat(chats, id, model) ==
    saveChat(chats, ChatSession(id, NewChatTitle, <<>>, model))

\* Lines 103-115: what is stored after updateChatTitle, and what it returns.
updateChatTitle(chats, id, title) ==
    IF getChatById(chats, id) = NoSession THEN [stored |-> chats, ret |-> FALSE]
    ELSE [stored |-> saveChat(chats, [getChatById(chats, id) EXCEPT !.title = title]),
          ret |-> TRUE]

Call(op, id, ret) == [op |-> op, id |-> id, ret |-> ret]

\* The ids drawn so far, one more that was never stored, and no id.
KnownIds == 0..(financeUuids + 1)

StoreUnchangedPage ==
    UNCHANGED <<currentChatId, financeMessages, financeIsLoading, financeInFlight,
                selectedModel>>

\* The sessions a caller may hand to saveChat.
SavedSessions ==
    {ChatSession(id, title, msgs, Sonnet) :
       id \in 1..MaxChats, title \in {NewChatTitle, CustomTitle},
       msgs \in {<<>>, <<FinanceMessage("user", <<"h", "i">>, FileUndefined)>>}}

StoreCreate ==
    /\ financeUuids < MaxChats
    /\ financeUuids' = financeUuids + 1
    /\ chatStore' = createNewChat(chatStore, financeUuids + 1, Sonnet)
    /\ lastCall' = Call("createNewChat", financeUuids + 1, TRUE)
    /\ StoreUnchangedPage
    /\ UNCHANGED besideFinance

StoreSave ==
    /\ \E chat \in SavedSessions :
         /\ chatStore' = saveChat(chatStore, chat)
         /\ lastCall' = [op |-> "saveChat", id |-> chat.id, ret |-> TRUE, chat |-> chat]
    /\ UNCHANGED financeUuids
    /\ StoreUnchangedPage
    /\ UNCHANGED besideFinance

StoreUpdateTitle ==
    /\ \E id \in 1..MaxChats :
         /\ chatStore' = updateChatTitle(chatStore, id, CustomTitle).stored
         /\ lastCall' = Call("updateChatTitle", id,
                             updateChatTitle(chatStore, id, CustomTitle).ret)
    /\ UNCHANGED financeUuids
    /\ StoreUnchangedPage
    /\ UNCHANGED besideFinance

StoreDelete ==
    /\ \E id \in 1..MaxChats :
         /\ chatStore' = deleteChat(chatStore, id)
         /\ lastCall' = Call("deleteChat", id, TRUE)
    /\ UNCHANGED financeUuids
    /\ StoreUnchangedPage
    /\ UNCHANGED besideFinance

StoreInit ==
    /\ FinanceUnmounted
    /\ FreshBesideFinance

StoreNext == StoreCreate \/ StoreSave \/ StoreUpdateTitle \/ StoreDelete
StoreSpec == StoreInit /\ [][StoreNext]_vars

StoredIds(chats) == {chats[i].id : i \in DOMAIN chats}

DistinctIds(chats) ==
    \A i, j \in DOMAIN chats : chats[i].id = chats[j].id => i = j

\* The sessions of a list other than the one at an index, in their order.
Others(chats, index) ==
    SubSeq(chats, 1, index - 1) \o SubSeq(chats, index + 1, Len(chats))

FirstLine(content) ==
    IF \E i \in DOMAIN content : content[i] = NL
    THEN SubSeq(content, 1,
                (CHOOSE i \in DOMAIN content :
                   content[i] = NL /\ \A j \in 1..(i - 1) : content[j] # NL) - 1)
    ELSE content

\* Lines 234-235 for the trimmed first line.
TitleOf(firstLine) ==
    LET preview == Trim(SliceTo0(firstLine, TitlePreviewLength))
    IN IF Len(preview) < Len(firstLine) THEN preview \o ThreeDots ELSE preview

\* What the user types: a line longer than the title preview, with a blank
\* in front and a second line.
LongLine == [i \in 1..(TitlePreviewLength + 1) |-> "x"]
FinanceInputs == {<<SP>> \o LongLine \o <<NL, "b">>}

\* A question stored by an earlier visit of the page.
EarlierQuestion == <<"h", "i">>

\* Lines 215-235 for the content of the first user message, tabulated over
\* what the user types.
Questions == FinanceInputs \cup {EarlierQuestion}
TitleTable == [content \in Questions |-> TitleOf(Trim(FirstLine(content)))]
TitleFor(content) ==
    IF content \in Questions THEN TitleTable[content]
    ELSE TitleOf(Trim(FirstLine(content)))

\* Lines 212-240: the title the save effect computes.
chatTitle(msgs) ==
    IF \E i \in DOMAIN msgs : msgs[i].role = "user"
    THEN TitleFor(
           msgs[CHOOSE i \in DOMAIN msgs :
                  msgs[i].role = "user" /\ \A j \in 1..(i - 1) : msgs[j].role # "user"
               ].content)
    ELSE NewChatTitle

\* Lines 205-259: the effect that runs when messages, currentChatId or
\* selectedModel changed.
saveEffect(chats, id, msgs, model) ==
    IF id = NoChat THEN chats
    ELSE saveChat(chats, ChatSession(id, chatTitle(msgs), msgs, model))

\* Lines 539-550 and 555-563: the last message is assigned; for an empty
\* list the assignment to index -1 adds no element.
AssignLast(msgs, message) ==
    IF msgs = <<>> THEN msgs ELSE [msgs EXCEPT ![Len(msgs)] = message]

\* The user messages a list of sessions holds with contents of a set.
RECURSIVE UserMessages(_, _)
UserMessages(chats, contents) ==
    IF chats = <<>> THEN 0
    ELSE Cardinality({i \in DOMAIN chats[1].messages :
                        /\ chats[1].messages[i].role = "user"
                        /\ chats[1].messages[i].content \in contents})
         + UserMessages(Tail(chats), contents)

\* The questions sent since AIChat was mounted and still stored.
FinanceSubmissions == UserMessages(chatStore, FinanceInputs)

\* Lines 261-271.
handleSelectChat(id) ==
    LET selectedChat == getChatById(chatStore, id)
    IN IF selectedChat = NoSession
       THEN UNCHANGED <<chatStore, currentChatId, financeMessages, selectedModel>>
       ELSE /\ currentChatId' = id
            /\ financeMessages' = selectedChat.messages
            /\ selectedModel' = selectedChat.model
            /\ chatStore' = saveEffect(chatStore, id, selectedChat.messages,
                                       selectedChat.model)

SelectChat ==
    /\ currentChatId # NoChat
    /\ \E id \in 1..financeUuids : handleSelectChat(id)
    /\ UNCHANGED <<lastCall, financeIsLoading, financeInFlight, financeUuids>>
    /\ UNCHANGED besideFinance

\* Lines 274-296, followed by the save effect.
handleNewChat(chats) ==
    /\ financeUuids' = financeUuids + 1
    /\ currentChatId' = financeUuids + 1
    /\ financeMessages' = <<>>
    /\ chatStore' =
         saveEffect(
           saveChat(createNewChat(chats, financeUuids + 1, selectedModel),
                    ChatSession(financeUuids + 1, NewChatTitle, <<>>, selectedModel)),
           financeUuids + 1, <<>>, selectedModel)
    /\ UNCHANGED selectedModel

NewChat ==
    /\ currentChatId # NoChat
    /\ financeUuids < MaxChats
    /\ handleNewChat(chatStore)
    /\ UNCHANGED <<lastCall, financeIsLoading, financeInFlight>>
    /\ UNCHANGED besideFinance

\* Lines 125-137 of LeftNavBar.
SaveTitle ==
    /\ currentChatId # NoChat
    /\ \E id \in StoredIds(chatStore) :
         chatStore' = updateChatTitle(chatStore, id, CustomTitle).stored
    /\ UNCHANGED <<lastCall, currentChatId, financeMessages, financeIsLoading, financeInFlight,
                   selectedModel, financeUuids>>
    /\ UNCHANGED besideFinance

\* Lines 91-112 of LeftNavBar: deleting the current chat opens a new one.
ConfirmDelete ==
    /\ currentChatId # NoChat
    /\ \E id \in StoredIds(chatStore) :
         IF id = currentChatId
         THEN /\ financeUuids < MaxChats
              /\ handleNewChat(deleteChat(chatStore, id))
         ELSE /\ chatStore' = deleteChat(chatStore, id)
              /\ UNCHANGED <<currentChatId, financeMessages, selectedModel, financeUuids>>
    /\ UNCHANGED <<lastCall, financeIsLoading, financeInFlight>>
    /\ UNCHANGED besideFinance

\* Lines 456-522: handleSubmit up to the fetch, followed by the save effect.
FinanceSubmit ==
    /\ currentChatId # NoChat
    /\ \E input \in FinanceInputs :
         IF financeIsLoading
         THEN UNCHANGED <<chatStore, financeMessages, financeIsLoading,
                          financeInFlight>>
         ELSE LET msgs == financeMessages \o
                            <<FinanceMessage("user", input, FileUndefined),
                              FinanceMessage("assistant", ThinkingContent, FileAbsent)>>
              IN /\ FinanceSubmissions < MaxFinanceSubmissions
                 /\ financeMessages' = msgs
                 /\ financeIsLoading' = TRUE
                 /\ financeInFlight' = currentChatId
                 /\ chatStore' = saveEffect(chatStore, currentChatId, msgs, selectedModel)
    /\ UNCHANGED <<lastCall, currentChatId, selectedModel, financeUuids>>
    /\ UNCHANGED besideFinance

\* isLoading is reset at the end of the try block only.
setIsLoadingAfterTry(succeeded) == ~succeeded

\* Lines 564-565: the finally block resets isLoading however the try block
\* ended.
setIsLoadingFinally(succeeded) == FALSE

\* Lines 524-576: the fetch settles; the answer or the apology is assigned
\* to the last message, isLoading is reset, and the save effect runs.
FinanceSettle ==
    /\ financeInFlight # NoChat
    /\ \E answer \in {AnswerContent, ApologyContent} :
         LET msgs == AssignLast(financeMessages,
                                FinanceMessage("assistant", answer, FileAbsent))
         IN /\ financeMessages' = msgs
            /\ financeIsLoading' = setIsLoadingFinally(answer = AnswerContent)
            /\ chatStore' = saveEffect(chatStore, currentChatId, msgs, selectedModel)
    /\ financeInFlight' = NoChat
    /\ UNCHANGED <<lastCall, currentChatId, selectedModel, financeUuids>>
    /\ UNCHANGED besideFinance

\* Lines 601-613, followed by the save effect.
ModelChange ==
    /\ currentChatId # NoChat
    /\ \E modelId \in {Sonnet, Haiku} :
         /\ selectedModel' = modelId
         /\ chatStore' =
              saveEffect(
                IF getChatById(chatStore, currentChatId) = NoSession THEN chatStore
                ELSE saveChat(chatStore,
                              [getChatById(chatStore, currentChatId) EXCEPT !.model = modelId]),
                currentChatId, financeMessages, modelId)
    /\ UNCHANGED <<lastCall, currentChatId, financeMessages, financeIsLoading,
                   financeInFlight, financeUuids>>
    /\ UNCHANGED besideFinance

\* The question with its answer, as stored.
EarlierMessages ==
    <<FinanceMessage("user", EarlierQuestion, FileAbsent),
      FinanceMessage("assistant", AnswerContent, FileAbsent)>>

\* Lines 185-202: with nothing stored a new chat is created and saved;
\* with a session stored, it is loaded.
FinanceMounted ==
    /\ \/ /\ chatStore = <<ChatSession(1, NewChatTitle, <<>>, Sonnet)>>
          /\ financeMessages = <<>>
       \/ /\ chatStore = <<ChatSession(1, EarlierQuestion, EarlierMessages, Sonnet)>>
          /\ financeMessages = EarlierMessages
    /\ lastCall = NoCall
    /\ currentChatId = 1
    /\ financeIsLoading = FALSE
    /\ financeInFlight = NoChat
    /\ selectedModel = Sonnet
    /\ financeUuids = 1

FinanceInit ==
    /\ FinanceMounted
    /\ FreshBesideFinance

FinanceNext ==
    \/ SelectChat \/ NewChat \/ SaveTitle \/ ConfirmDelete
    \/ FinanceSubmit \/ FinanceSettle \/ ModelChange
FinanceSpec == FinanceInit /\ [][FinanceNext]_vars

(***************************************************************************)
(* isLoading in the two chat clients: the handlers that write isLoading or *)
(* the pending request, and those of AIChat that change the session while  *)
(* a request is pending.  The clients are separate applications, so a      *)
(* behaviour uses one of them: ChatArea moves while AIChat is as mounted,  *)
(* and AIChat moves while ChatArea is as mounted.  A fetch settles in the  *)
(* end, with a response or with a rejection.                               *)
(***************************************************************************)
LoadingInit == FinanceInit

LoadingNext ==
    \/ FinanceMounted /\ (Submit \/ Settle)
    \/ ChatMounted /\ (FinanceSubmit \/ FinanceSettle \/ SelectChat \/ NewChat)

LoadingFairSpec ==
    /\ LoadingInit
    /\ [][LoadingNext]_vars
    /\ WF_vars(Settle)
    /\ WF_vars(FinanceSettle)

\* The pending request of AIChat settles in this step.
FinanceSettled == financeInFlight # NoChat /\ financeInFlight' = NoChat

\* C26: when the request submitted in a session settles, the stored
\* messages of every other session stay as they were, and the messages on
\* screen are not changed if they belong to another session.
C26_ResponseChangesOnlyItsSession ==
    [][FinanceSettled =>
         /\ \A i \in DOMAIN chatStore :
              chatStore[i].id # financeInFlight =>
                getChatById(chatStore', chatStore[i].id).messages = chatStore[i].messages
         /\ currentChatId # financeInFlight => financeMessages' = financeMessages]_vars

\* C27: a stored session whose title was set by the rename keeps that title
\* for as long as it is stored.
C27_RenamedTitleStays ==
    [][\A i \in DOMAIN chatStore :
         (chatStore[i].title = CustomTitle /\ chatStore[i].id \in StoredIds(chatStore')) =>
            getChatById(chatStore', chatStore[i].id).title = CustomTitle]_vars

\* C28: in both clients isLoading is set when a request is sent and reset in
\* the step in which its fetch settles, however it settles, so that a
\* client that is loading stops loading in the end; while isLoading holds,
\* the disabled controls of ChatArea start no submission and handleSubmit of
\* AIChat returns without one.
C28_LoadingAlwaysEnds ==
    /\ [][/\ Submissions' > Submissions => isLoading'
          /\ SettledNow # {} => ~isLoading'
          /\ isLoading => Submissions' = Submissions
          /\ (financeInFlight = NoChat /\ financeInFlight' # NoChat) => financeIsLoading'
          /\ FinanceSettled => ~financeIsLoading'
          /\ financeIsLoading =>
               /\ financeInFlight' \in {financeInFlight, NoChat}
               /\ UserMessages(chatStore', FinanceInputs) <=
                 UserMessages(chatStore, FinanceInputs)]_vars
    /\ isLoading ~> ~isLoading
    /\ financeIsLoading ~> ~financeIsLoading

\* A request of AIChat has failed, the apology took the place of the
\* placeholder, and the page has stopped loading.
C28_Witness ==
    /\ ~financeIsLoading
    /\ financeInFlight = NoChat
    /\ financeMessages # <<>>
    /\ financeMessages[Len(financeMessages)].content = ApologyContent

(***************************************************************************)
(* The API key and the response of POST /api/chat.  POST computes, as a    *)
(* function, the response of one request from everything the handler       *)
(* reads: the body, the key, what the retrieval service and the            *)
(* completion API answer, and the id drawn for the answer.                 *)
(***************************************************************************)

\* What slice(0, 4) keeps of a key.
FirstFour(key) == IF key.t = "undefined" THEN key ELSE JStr(SliceTo(key.s, 4))

\* Lines 64-83 for each body of the environment: whether the statements
\* before the try block throw and, if not, what they read from the body.
Received(parsed) ==
    IF ReceiveThrows(parsed) THEN [thrown |-> TRUE]
    ELSE [thrown |-> FALSE,
          messages |-> Get(parsed.v, K_messages),
          knowledgeBaseId |-> Get(parsed.v, K_knowledgeBaseId),
          latestMessage |-> Get(LastOf(Get(parsed.v, K_messages)), K_content)]
ReceivedOf == [body \in RequestBodies |-> Received(JSONParse(body))]
AcceptedBodies == {body \in RequestBodies : ~ReceivedOf[body].thrown}

\* debugData of each accepted body under each key, and under what
\* slice(0, 4) keeps of each key.
DebugDataOf ==
    [body \in AcceptedBodies, key \in ApiKeys \cup {FirstFour(k) : k \in ApiKeys} |->
       DebugData(ReceivedOf[body].messages, ReceivedOf[body].latestMessage, key)]

\* ragSources of each accepted body for each answer of the retrieval
\* service.
RagSourcesOf ==
    [body \in AcceptedBodies, outcome \in ServiceOutcomes |->
       retrieveContext(ReceivedOf[body].latestMessage, ReceivedOf[body].knowledgeBaseId,
                       outcome).ragSources]

\* Lines 64-301: the response of one request.
POST(body, key, outcome, message, uuid) ==
    IF ReceivedOf[body].thrown THEN NoResponse
    ELSE IF message = ApiThrow THEN FailureResponse("completion")
    ELSE IF ~GenerationOf[message].parsed.ok THEN FailureResponse("json")
    ELSE IF ~GenerationOf[message].validated.ok THEN FailureResponse("schema")
    ELSE SuccessResponse(ResponseWithId(uuid, GenerationOf[message].validated.v),
                         RagSourcesOf[body, outcome],
                         DebugDataOf[body, key])

\* What the retrieval service answered in this run; a run that never called
\* it reads no answer.
ServiceAnswer == IF svc = NotCalled THEN SvcThrow ELSE svc

\* The response this request gets under key, everything else being as in
\* this run.
ResponseUnder(key) == POST(reqBody, key, ServiceAnswer, completion, SampleUuid)

\* A response without its X-Debug-Data header.
BesideDebugData(r) == [status |-> r.status, body |-> r.body, xRagSources |-> r.xRagSources]

\* C29: the response depends on the API key only through the X-Debug-Data
\* header, and that header is the one the first four characters of the key
\* alone would give; status, body and x-rag-sources are the same under every
\* key, and a 500 response carries no debug header.
C29_KeyShowsOnlyInDebugHeader ==
    Responded
        => /\ \A key \in ApiKeys :
                BesideDebugData(ResponseUnder(key)) = BesideDebugData(response)
           /\ response.xDebugData =
                IF response.status = 200
                THEN Header(sanitizeHeaderValue(DebugDataOf[reqBody, FirstFour(apiKey)]))
                ELSE NoHeader

\* A 200 response under the key sk-ant-1 whose debug header differs from
\* the one an unset key gives.
C29_Witness ==
    /\ Responded
    /\ response.status = 200
    /\ apiKey = JStr(<<"s", "k", "-", "a", "n", "t", "-", "1">>)
    /\ response.xDebugData.present
    /\ response.xDebugData # ResponseUnder(JUndef).xDebugData
    /\ response.xRagSources.present

(***************************************************************************)
(* The container launcher script: lines 176-227 of part_004.  One step is  *)
(* one command.  bash runs the handlers of the signals it has received     *)
(* before the next command, also before the next command of a handler      *)
(* that is running; the handler of line 207 is the same for EXIT, INT and  *)
(* TERM.  The script runs under set -e (line 61).                          *)
(***************************************************************************)

MaxSignals == 2

\* A running handler of the trap of line 207 and the command it is at.
Frame(trap, at) == [trap |-> trap, at |-> at]

\* The script once line 207 has set the trap: the container is running and
\* the monitor loop is about to test it.
LauncherStarted ==
    /\ scriptPc = "monitor"
    /\ trapFrames = <<>>
    /\ pendingTraps = 0
    /\ SIGNAL_RECEIVED = 0
    /\ CLEANUP_DONE = 0
    /\ containerState = "running"
    /\ stopCalls = 0
    /\ printedUnexpected = FALSE
    /\ exitStatus = NoExit
    /\ signalsSent = 0

ScriptRuns == scriptPc \notin {"off", "exited"}

\* container_is_running, lines 141-145.
container_is_running == containerState = "running"

\* SIGINT or SIGTERM reaches the script.
Signal ==
    /\ ScriptRuns
    /\ signalsSent < MaxSignals
    /\ signalsSent' = signalsSent + 1
    /\ pendingTraps' = pendingTraps + 1
    /\ UNCHANGED <<scriptPc, trapFrames, SIGNAL_RECEIVED, CLEANUP_DONE, containerState,
                   stopCalls, printedUnexpected, exitStatus>>
    /\ UNCHANGED besideLauncher

\* The container stops by itself.
ContainerExits ==
    /\ ScriptRuns
    /\ containerState = "running"
    /\ containerState' = IF signalsSent = 0 THEN "exited" ELSE "exitedAfterSignal"
    /\ UNCHANGED <<scriptPc, trapFrames, pendingTraps, SIGNAL_RECEIVED, CLEANUP_DONE,
                   stopCalls, printedUnexpected, exitStatus, signalsSent>>
    /\ UNCHANGED besideLauncher

\* bash starts the handler of a received signal before the next command.
TrapStart ==
    /\ ScriptRuns
    /\ pendingTraps > 0
    /\ pendingTraps' = pendingTraps - 1
    /\ trapFrames' = Append(trapFrames, Frame("SIGNAL", "set"))
    /\ UNCHANGED <<scriptPc, SIGNAL_RECEIVED, CLEANUP_DONE, containerState, stopCalls,
                   printedUnexpected, exitStatus, signalsSent>>
    /\ UNCHANGED besideLauncher

ExitTrapRuns == \E i \in DOMAIN trapFrames : trapFrames[i].trap = "EXIT"

\* exit, or a failed command under set -e: the EXIT trap runs, unless it is
\* what is running, and the script ends.
Terminate(status) ==
    /\ exitStatus' = status
    /\ IF ExitTrapRuns
       THEN scriptPc' = "exited" /\ trapFrames' = <<>>
       ELSE scriptPc' = "exiting" /\ trapFrames' = <<Frame("EXIT", "set")>>

\* The innermost handler returns.
Return ==
    /\ IF trapFrames[Len(trapFrames)].trap = "EXIT"
       THEN scriptPc' = "exited" /\ trapFrames' = <<>>
       ELSE scriptPc' = scriptPc /\ trapFrames' = SubSeq(trapFrames, 1, Len(trapFrames) - 1)
    /\ UNCHANGED exitStatus

\* The innermost handler moves on to the command at.
Goto(at) ==
    /\ trapFrames' = [trapFrames EXCEPT ![Len(trapFrames)].at = at]
    /\ UNCHANGED <<scriptPc, exitStatus>>

\* cleanup, lines 186-205, command by command: the test of CLEANUP_DONE,
\* its assignment, docker stop, kill $LOG_PID.  killed is whether kill finds
\* the log process; a failed kill ends the script under set -e.
cleanup(at, killed) ==
    CASE at = "test" ->
           /\ IF CLEANUP_DONE = 1 THEN Return ELSE Goto("mark")
           /\ UNCHANGED <<CLEANUP_DONE, containerState, stopCalls>>
      [] at = "mark" ->
           /\ CLEANUP_DONE' = 1
           /\ Goto("stop")
           /\ UNCHANGED <<containerState, stopCalls>>
      [] at = "stop" ->
           /\ stopCalls' = stopCalls + 1
           /\ containerState' = IF container_is_running THEN "stopped" ELSE containerState
           /\ Goto("kill")
           /\ UNCHANGED CLEANUP_DONE
      [] at = "kill" ->
           /\ IF killed THEN Return ELSE Terminate(1)
           /\ UNCHANGED <<CLEANUP_DONE, containerState, stopCalls>>

\* One command of the innermost handler: SIGNAL_RECEIVED=1; cleanup.
TrapStep ==
    /\ ScriptRuns
    /\ pendingTraps = 0
    /\ trapFrames # <<>>
    /\ IF trapFrames[Len(trapFrames)].at = "set"
       THEN /\ SIGNAL_RECEIVED' = 1
            /\ Goto("test")
            /\ UNCHANGED <<CLEANUP_DONE, containerState, stopCalls>>
       ELSE /\ \E killed \in BOOLEAN : cleanup(trapFrames[Len(trapFrames)].at, killed)
            /\ UNCHANGED SIGNAL_RECEIVED
    /\ UNCHANGED <<pendingTraps, printedUnexpected, signalsSent>>
    /\ UNCHANGED besideLauncher

\* One command of lines 218-227.
ScriptStep ==
    /\ scriptPc \in {"monitor", "sleep", "check", "echo", "exit", "end"}
    /\ pendingTraps = 0
    /\ trapFrames = <<>>
    /\ CASE scriptPc = "monitor" ->
              /\ scriptPc' = IF container_is_running THEN "sleep" ELSE "check"
              /\ UNCHANGED <<trapFrames, printedUnexpected, exitStatus>>
         [] scriptPc = "sleep" ->
              /\ scriptPc' = "monitor"
              /\ UNCHANGED <<trapFrames, printedUnexpected, exitStatus>>
         [] scriptPc = "check" ->
              /\ scriptPc' = IF SIGNAL_RECEIVED # 1 THEN "echo" ELSE "end"
              /\ UNCHANGED <<trapFrames, printedUnexpected, exitStatus>>
         [] scriptPc = "echo" ->
              /\ printedUnexpected' = TRUE
              /\ scriptPc' = "exit"
              /\ UNCHANGED <<trapFrames, exitStatus>>
         [] scriptPc = "exit" ->
              /\ Terminate(1)
              /\ UNCHANGED printedUnexpected
         [] scriptPc = "end" ->
              /\ Terminate(0)
              /\ UNCHANGED printedUnexpected
    /\ UNCHANGED <<pendingTraps, SIGNAL_RECEIVED, CLEANUP_DONE, containerState, stopCalls,
                   signalsSent>>
    /\ UNCHANGED besideLauncher

LauncherInit == LauncherStarted /\ FreshBesideLauncher
LauncherNext == Signal \/ ContainerExits \/ TrapStart \/ TrapStep \/ ScriptStep
LauncherSpec == LauncherInit /\ [][LauncherNext]_vars

\* The message of line 225 with exit status 1 comes only after the
\* container stopped by itself before any signal was sent.
UnexpectedOnlyWithoutSignal ==
    (printedUnexpected /\ exitStatus = 1) => containerState = "exited"

\* C30: cleanup stops the container at most once per run, and the script
\* prints "Container stopped unexpectedly." and exits with status 1 only
\* when the container stopped without a signal having been received.
C30_StopsOnceAndReportsOnlyUnexpectedStops ==
    /\ stopCalls <= 1
    /\ UnexpectedOnlyWithoutSignal

=============================================================================
